---- MODULE Spec2Model ----
(***************************************************************************)
(* Model of the Telegram ingestion core of ikarus-stv/Zeroint:             *)
(*   src/telethon/db.py    Database (the SQLite table `messages`)          *)
(*   src/telethon/main.py  TelegramBot (chat-id / sender resolution,       *)
(*                         save_messages_to_db, the NewMessage handler)    *)
(*                                                                         *)
(* Python values are encoded as follows.                                   *)
(*   Optional[T]  a set with at most one element: {} is None, {x} is x.    *)
(*   str          a sequence of atoms; the atom " " is a blank, every     *)
(*                other atom stands for a run of non-blank characters.     *)
(*   datetime     an integer.                                              *)
(***************************************************************************)
EXTENDS Integers, Sequences, FiniteSets, TLC

VARIABLES
    rows,           \* the rows of table `messages` (db.py:46-53)
    hist,           \* the last (at most two) Database operations, oldest first
    msg,            \* resolver harness: the message shape under resolution
    res,            \* resolver harness: what the two resolver functions returned
    pc,             \* ingestion: position of the worker
    pos,            \* ingestion: number of messages / events processed so far
    blen,           \* save_messages_to_db: len(messages)
    chat_title,     \* save_messages_to_db: the chat_title argument
    saved_count,    \* save_messages_to_db: local saved_count
    skipped_count,  \* save_messages_to_db: local skipped_count
    summaries,      \* save_messages_to_db: number of summary lines logged (main.py:297)
    cur,            \* ingestion: the message last processed, the calls made for it
    race,           \* two flows saving one pair: the pair, the store before, the results
    batch,          \* feed: the messages both ingestion paths are given
    fpc,            \* feed: what is being done with the batch
    bout,           \* feed: outcome of every step of save_messages_to_db so far
    lout,           \* feed: outcome of every run of the handler so far
    rows1,          \* feed: the rows when the first pass over the batch ended
    conn,           \* connect(): position, attempts, waits, the calls of this attempt
    pull,           \* get_dialogs / get_chat_messages: the iteration and its result
    run,            \* main(): position, milestones, how it ended, disconnect
    dbs,            \* the database file: schema objects, connections left open, history
    sub,            \* the live subscription: is_running, handlers, every handler run
    lab,            \* label harness: one message, the platform's answers, both labels
    again           \* resolver called again: the results so far, the session state

vars == <<rows, hist, msg, res, pc, pos, blen, chat_title, saved_count,
          skipped_count, summaries, cur, race, batch, fpc, bout, lout, rows1,
          conn, pull, run, dbs, sub, lab, again>>

storeVars == <<rows, hist>>
resolveVars == <<msg, res>>
ingestVars == <<pc, pos, blen, chat_title, saved_count, skipped_count, summaries, cur>>
feedVars == <<batch, fpc, bout, lout, rows1>>
mainVars == <<conn, pull, run>>
restVars == <<dbs, sub, lab, again>>
notDb == <<sub, lab, again>>
notSub == <<dbs, lab, again>>
notLab == <<dbs, sub, again>>
notAgain == <<dbs, sub, lab>>
laterVars == <<race, feedVars, mainVars, restVars>>

-----------------------------------------------------------------------------
(* Bounds of the model.                                                     *)

MaxMsgId == 2       \* message ids are 1..MaxMsgId
MaxBatch == 1       \* a historical batch holds at most MaxBatch messages
MaxLive  == 1       \* at most MaxLive live events are delivered
MaxFlows == 2       \* the logical flows that save one pair are 1..MaxFlows
MaxFeed  == 2       \* a batch given to both paths holds at most MaxFeed messages
MaxFloods == 2      \* wait signals are counted up to MaxFloods ("that many or more")
MaxPull  == 2       \* the limit given to get_dialogs and to get_chat_messages
MaxUnclosed == 1    \* at most MaxUnclosed connections are left open at a time
MaxEvents == 2      \* at most MaxEvents events reach the handler
MaxStarts == 2      \* start_listening is called at most MaxStarts times
MaxCalls == 2       \* the resolver is called at most MaxCalls times on a message

-----------------------------------------------------------------------------
(* Python values.                                                           *)

None == {}
Some(x) == {x}
Get(o) == CHOOSE x \in o : TRUE

\* Truth value of an Optional[int]: None and 0 are false.
TruthyInt(o) == o # None /\ Get(o) # 0
\* Truth value of an Optional[str]: None and "" are false.
TruthyStr(o) == o # None /\ Get(o) # <<>>
\* Truth value of an Optional[object]: only None is false.
TruthyObj(o) == o # None
\* `o or d` for an Optional[str] o and a str d.
OrStr(o, d) == IF TruthyStr(o) THEN Get(o) ELSE d

RECURSIVE lstrip(_)
lstrip(s) == IF s # <<>> /\ Head(s) = " " THEN lstrip(Tail(s)) ELSE s
RECURSIVE rstrip(_)
rstrip(s) ==
    IF s # <<>> /\ s[Len(s)] = " " THEN rstrip(SubSeq(s, 1, Len(s) - 1)) ELSE s
\* str.strip()
strip(s) == rstrip(lstrip(s))

-----------------------------------------------------------------------------
(* src/telethon/db.py: class Database.                                      *)

MsgIds == 1 .. MaxMsgId
StoreChatIds == {100, 200}
CountArgs == {None, Some(0)} \cup {Some(c) : c \in StoreChatIds}
Bob == <<"Bob">>
Eve == <<"Eve">>
Hi == <<"hi">>
StoreSenders == {Some(Bob), Some(Eve)}

Row(message_id, chat_id, sender, text, date) ==
    [id |-> message_id, chat_id |-> chat_id, sender |-> sender,
     text |-> text, date |-> date]

\* id INTEGER PRIMARY KEY (db.py:47)
PrimaryKeyConflict(t, row) == \E r \in t : r.id = row.id
\* UNIQUE(id, chat_id) (db.py:52)
UniqueConflict(t, row) == \E r \in t : r.id = row.id /\ r.chat_id = row.chat_id

\* A plausible slip: INSERT OR REPLACE in place of INSERT OR IGNORE.
InsertOrReplace(t, row) == {r \in t : r.id # row.id} \cup {row}

\* A plausible slip: the table has UNIQUE(id, chat_id) only, id is no key.
InsertOrIgnorePairOnly(t, row) ==
    IF UniqueConflict(t, row) THEN t ELSE t \cup {row}

\* INSERT OR IGNORE INTO messages ... (db.py:99-102): a row that violates a
\* uniqueness constraint of the table is skipped.
InsertOrIgnore(t, row) ==
    IF PrimaryKeyConflict(t, row) \/ UniqueConflict(t, row)
    THEN t
    ELSE t \cup {row}

\* A plausible slip: the `except Exception` branch is missing, a storage
\* failure leaves save_message as an exception.
save_message_unguarded(t, message_id, chat_id, sender, text, date, fault) ==
    IF fault THEN [rows |-> t, ret |-> FALSE, raised |-> TRUE]
    ELSE IF chat_id = None THEN [rows |-> t, ret |-> FALSE, raised |-> FALSE]
    ELSE LET t2 == InsertOrIgnore(t, Row(message_id, Get(chat_id), sender, text, date))
             rowcount == Cardinality(t2) - Cardinality(t)
         IN [rows |-> t2, ret |-> rowcount > 0, raised |-> FALSE]

\* Database.save_message (db.py:72-120); chat_id is an Optional[int].
\* fault: the storage layer raises inside the try block; nothing is
\* committed and False is returned.  A None chat_id violates
\* chat_id INTEGER NOT NULL (db.py:48), which OR IGNORE skips as well.
\* raised: the call is left by an exception; `except Exception`
\* (db.py:118-120) lets none out.
save_message(t, message_id, chat_id, sender, text, date, fault) ==
    IF fault \/ chat_id = None
    THEN [rows |-> t, ret |-> FALSE, raised |-> FALSE]
    ELSE LET t2 == InsertOrIgnore(t, Row(message_id, Get(chat_id), sender, text, date))
             rowcount == Cardinality(t2) - Cardinality(t)
         IN [rows |-> t2, ret |-> rowcount > 0, raised |-> FALSE]

\* Database.get_message_count (db.py:122-146); chat_id is an Optional[int].
get_message_count(t, chat_id, fault) ==
    IF fault THEN 0
    ELSE IF TruthyInt(chat_id)
         THEN Cardinality({r \in t : r.chat_id = Get(chat_id)})
         ELSE Cardinality(t)

\* One entry of hist.
Op(op, message_id, chat_id, fault, inserted, count, before) ==
    [op |-> op, message_id |-> message_id, chat_id |-> chat_id,
     fault |-> fault, inserted |-> inserted, count |-> count, before |-> before]

Remember(o) == IF hist = <<>> THEN <<o>> ELSE <<hist[Len(hist)], o>>

\* The logical flows of the worker that may call save_message for one pair.
Flows == 1 .. MaxFlows
\* No pair is being saved by the flows.
NoRace == [pair |-> None, before |-> {}, ret |-> [f \in Flows |-> "pending"]]

\* The table and the two indexes of db.py:45-63.
SchemaObjects == {"messages", "idx_chat_id", "idx_date"}

\* Where the storage layer can raise in save_message and get_message_count:
\* in sqlite3.connect (db.py:35), in cursor.execute (db.py:99, 137-139), in
\* conn.commit (db.py:104).
DbFaults == {"none", "connect", "execute", "commit"}
\* Where it can raise in init_database (db.py:42-65).
InitFaults ==
    {"none", "connect", "create_table", "create_idx_chat_id", "create_idx_date",
     "commit"}

\* A plausible slip: CREATE without IF NOT EXISTS, which fails on an object
\* that exists.
create_always(schema, name) ==
    [schema |-> schema \cup {name}, ok |-> name \notin schema]

\* CREATE TABLE / CREATE INDEX IF NOT EXISTS (db.py:45-63): the object is
\* created when missing; an existing one, and its rows, are left alone.
create_if_not_exists(schema, name) ==
    [schema |-> schema \cup {name}, ok |-> TRUE]

\* Database.init_database (db.py:39-70) on a file with the objects `schema`
\* and the rows t.  Each CREATE takes effect at once (sqlite3 opens no
\* transaction for DDL), so a failure leaves what was created before it.
\* conn.close() (db.py:66) is reached only when nothing raised; the except
\* branch logs and raises again (db.py:68-70).
init_database(schema, t, fault) ==
    LET c1 == create_if_not_exists(schema, "messages")
        c2 == create_if_not_exists(c1.schema, "idx_chat_id")
        c3 == create_if_not_exists(c2.schema, "idx_date")
    IN IF fault = "connect"
       THEN [schema |-> schema, rows |-> t, raised |-> TRUE, left_open |-> FALSE]
       ELSE IF fault = "create_table" \/ ~c1.ok
       THEN [schema |-> schema, rows |-> t, raised |-> TRUE, left_open |-> TRUE]
       ELSE IF fault = "create_idx_chat_id" \/ ~c2.ok
       THEN [schema |-> c1.schema, rows |-> t, raised |-> TRUE, left_open |-> TRUE]
       ELSE IF fault = "create_idx_date" \/ ~c3.ok
       THEN [schema |-> c2.schema, rows |-> t, raised |-> TRUE, left_open |-> TRUE]
       ELSE [schema |-> c3.schema, rows |-> t, raised |-> fault = "commit",
             left_open |-> fault = "commit"]

\* save_message and get_message_count call conn.close() on the path on
\* which nothing raised only (db.py:106, 142): after a failure of execute
\* or commit the connection get_connection opened is not closed by the code
\* and stays open until the interpreter finalizes it.
leaves_open(fault) == fault \in {"execute", "commit"}

\* One operation of the Database, as dbs.last keeps it.
DbOp(op, fault, call, ret, raised) ==
    [op |-> op, fault |-> fault, call |-> call, ret |-> ret, raised |-> raised]

\* A database file that does not exist yet, and no Database object.
NoDb ==
    [made |-> FALSE, schema |-> {}, open |-> 0, kept |-> <<>>, tried |-> {},
     last |-> DbOp("none", "none", None, FALSE, FALSE)]

-----------------------------------------------------------------------------
(* src/telethon/main.py: TelegramBot.connect, one await or input() a step.  *)
(* A call of the platform answers "ok", a value, "flood" (FloodWaitError),  *)
(* "password_needed" (SessionPasswordNeededError) or "error" (any other     *)
(* Exception); input() answers "ok" or "error".                             *)

\* The seconds a FloodWaitError asks to wait.
WaitSeconds == {1, 30}

\* What each step of connect() can be answered.
ConnectAnswers(step) ==
    IF step = "start" THEN {"ok", "flood", "error"}
    ELSE IF step = "is_user_authorized" THEN {"yes", "no", "flood", "error"}
    ELSE IF step \in {"input_phone", "input_code", "input_password"} THEN {"ok", "error"}
    ELSE IF step = "sign_in" THEN {"ok", "password_needed", "flood", "error"}
    ELSE {"ok", "flood", "error"}

\* A plausible slip: the FloodWaitError of the second sign_in, raised inside
\* the handler of SessionPasswordNeededError, is taken for a failure.
connect_next_flood_misses_handler(step, ans) ==
    IF ans = "flood" THEN (IF step = "sign_in_password" THEN "failed" ELSE "sleep")
    ELSE IF ans = "error" THEN "failed"
    ELSE IF step = "start" THEN "is_user_authorized"
    ELSE IF step = "is_user_authorized"
         THEN IF ans = "yes" THEN "get_me" ELSE "input_phone"
    ELSE IF step = "input_phone" THEN "send_code_request"
    ELSE IF step = "send_code_request" THEN "input_code"
    ELSE IF step = "input_code" THEN "sign_in"
    ELSE IF step = "sign_in"
         THEN IF ans = "password_needed" THEN "input_password" ELSE "get_me"
    ELSE IF step = "input_password" THEN "sign_in_password"
    ELSE IF step = "sign_in_password" THEN "get_me"
    ELSE "returned"

\* A plausible slip: the password is asked for after every sign_in.
connect_next_always_password(step, ans) ==
    IF ans = "flood" THEN "sleep"
    ELSE IF ans = "error" THEN "failed"
    ELSE IF step = "start" THEN "is_user_authorized"
    ELSE IF step = "is_user_authorized"
         THEN IF ans = "yes" THEN "get_me" ELSE "input_phone"
    ELSE IF step = "input_phone" THEN "send_code_request"
    ELSE IF step = "send_code_request" THEN "input_code"
    ELSE IF step = "input_code" THEN "sign_in"
    ELSE IF step = "sign_in" THEN "input_password"
    ELSE IF step = "input_password" THEN "sign_in_password"
    ELSE IF step = "sign_in_password" THEN "get_me"
    ELSE "returned"

\* A plausible slip: a rejected code or password is asked for again.
connect_next_asks_again(step, ans) ==
    IF ans = "flood" THEN "sleep"
    ELSE IF ans = "error"
         THEN IF step = "sign_in" THEN "input_code"
              ELSE IF step = "sign_in_password" THEN "input_password"
              ELSE "failed"
    ELSE IF step = "start" THEN "is_user_authorized"
    ELSE IF step = "is_user_authorized"
         THEN IF ans = "yes" THEN "get_me" ELSE "input_phone"
    ELSE IF step = "input_phone" THEN "send_code_request"
    ELSE IF step = "send_code_request" THEN "input_code"
    ELSE IF step = "input_code" THEN "sign_in"
    ELSE IF step = "sign_in"
         THEN IF ans = "password_needed" THEN "input_password" ELSE "get_me"
    ELSE IF step = "input_password" THEN "sign_in_password"
    ELSE IF step = "sign_in_password" THEN "get_me"
    ELSE "returned"

\* Where connect() goes after the answer ans to its step (main.py:125-152):
\* "sleep" is the `except FloodWaitError`, "failed" the `except Exception`,
\* "returned" the `return True`.
connect_next(step, ans) ==
    IF ans = "flood" THEN "sleep"
    ELSE IF ans = "error" THEN "failed"
    ELSE IF step = "start" THEN "is_user_authorized"
    ELSE IF step = "is_user_authorized"
         THEN IF ans = "yes" THEN "get_me" ELSE "input_phone"
    ELSE IF step = "input_phone" THEN "send_code_request"
    ELSE IF step = "send_code_request" THEN "input_code"
    ELSE IF step = "input_code" THEN "sign_in"
    ELSE IF step = "sign_in"
         THEN IF ans = "password_needed" THEN "input_password" ELSE "get_me"
    ELSE IF step = "input_password" THEN "sign_in_password"
    ELSE IF step = "sign_in_password" THEN "get_me"
    ELSE "returned"

\* connect() has not been called.
NoConnect ==
    [at |-> "none", calls |-> <<>>, attempts |-> 0, floods |-> 0, wait |-> 0,
     asked |-> 0, slept |-> 0, ret |-> "pending"]
\* No iteration has been started.
NoPull == [op |-> "none", received |-> 0, failed |-> FALSE, returned |-> None]
\* main() has not been entered.
NoRun == [at |-> "none", trail |-> <<>>, why |-> "none", disconnects |-> 0,
          disconnect_logged |-> FALSE, left |-> "none"]

\* A bot that start_listening was not called on (main.py:56): is_running
\* is False, no handler is registered, no event was handled.
NoSub == [is_running |-> FALSE, handlers |-> 0, at |-> "idle", starts |-> 0,
         outs |-> <<>>]
\* The resolver was not called; not connected, not listening.
NoAgain == [results |-> <<>>, connected |-> FALSE, is_running |-> FALSE]

-----------------------------------------------------------------------------
(* src/telethon/main.py: TelegramBot.get_chat_id_from_message and           *)
(* TelegramBot.is_private_chat.  A message is an Optional record with the   *)
(* attributes chat_id (Optional[int]), peer_id and to_id (Optional peers);  *)
(* a peer is one of telethon's PeerUser, PeerChat, PeerChannel              *)
(* (main.py:20), given as [kind, id].                                       *)

PeerKinds == {"PeerChannel", "PeerChat", "PeerUser"}
PeerIds == {0, 7, 555}
Peers == [kind : PeerKinds, id : PeerIds]
OptPeers == {None} \cup {Some(p) : p \in Peers}
DirectChatIds == {None, Some(0), Some(100)}
MessageShapes == [chat_id : DirectChatIds, peer_id : OptPeers, to_id : OptPeers]

\* The isinstance chain of main.py:80-85 and main.py:90-95: the id field of
\* the peer's kind; None stands for "no branch taken".
PeerDispatch(peer) ==
    IF peer.kind = "PeerChannel" THEN Some(peer.id)
    ELSE IF peer.kind = "PeerChat" THEN Some(peer.id)
    ELSE IF peer.kind = "PeerUser" THEN Some(peer.id)
    ELSE None

\* A plausible slip: to_id is consulted before peer_id.
get_chat_id_legacy_first(message) ==
    IF ~TruthyObj(message) THEN None
    ELSE LET m == Get(message) IN
         IF TruthyInt(m.chat_id) THEN m.chat_id
         ELSE IF TruthyObj(m.to_id) /\ PeerDispatch(Get(m.to_id)) # None
              THEN PeerDispatch(Get(m.to_id))
         ELSE IF TruthyObj(m.peer_id) /\ PeerDispatch(Get(m.peer_id)) # None
              THEN PeerDispatch(Get(m.peer_id))
         ELSE None

\* A plausible slip: a message that gives no chat id is given the chat id
\* of a stored row.
get_chat_id_from_store(message) ==
    LET stored == IF rows = {} THEN None ELSE Some((CHOOSE r \in rows : TRUE).chat_id)
    IN IF ~TruthyObj(message) THEN stored
       ELSE LET m == Get(message) IN
            IF TruthyInt(m.chat_id) THEN m.chat_id
            ELSE IF TruthyObj(m.peer_id) /\ PeerDispatch(Get(m.peer_id)) # None
                 THEN PeerDispatch(Get(m.peer_id))
            ELSE IF TruthyObj(m.to_id) /\ PeerDispatch(Get(m.to_id)) # None
                 THEN PeerDispatch(Get(m.to_id))
            ELSE stored

\* TelegramBot.get_chat_id_from_message (main.py:58-97)
get_chat_id_from_message(message) ==
    IF ~TruthyObj(message) THEN None
    ELSE LET m == Get(message) IN
         IF TruthyInt(m.chat_id) THEN m.chat_id
         ELSE IF TruthyObj(m.peer_id) /\ PeerDispatch(Get(m.peer_id)) # None
              THEN PeerDispatch(Get(m.peer_id))
         ELSE IF TruthyObj(m.to_id) /\ PeerDispatch(Get(m.to_id)) # None
              THEN PeerDispatch(Get(m.to_id))
         ELSE None

\* A plausible slip: to_id is classified before peer_id.
is_private_legacy_first(message) ==
    IF ~TruthyObj(message) THEN FALSE
    ELSE LET m == Get(message) IN
         IF TruthyObj(m.to_id) THEN Get(m.to_id).kind = "PeerUser"
         ELSE IF TruthyObj(m.peer_id) THEN Get(m.peer_id).kind = "PeerUser"
         ELSE FALSE

\* TelegramBot.is_private_chat (main.py:99-121)
is_private_chat(message) ==
    IF ~TruthyObj(message) THEN FALSE
    ELSE LET m == Get(message) IN
         IF TruthyObj(m.peer_id) THEN Get(m.peer_id).kind = "PeerUser"
         ELSE IF TruthyObj(m.to_id) THEN Get(m.to_id).kind = "PeerUser"
         ELSE FALSE

-----------------------------------------------------------------------------
(* src/telethon/main.py: sender and chat labels.  An entity is a telethon  *)
(* User (first_name, last_name, username, no title), a Channel or Chat     *)
(* (title, no first_name) or a ChatEmpty (neither attribute).              *)

Ann == <<"Ann">>
Lee == <<"Lee">>
Handle == <<"ann_h">>
Blank == <<" ">>
Title == <<"News">>
Hint == <<"Hint">>
Unknown == <<"Unknown">>            \* the literal of main.py:264, 268, 316
UnknownChat == <<"Unknown", " ", "chat">>   \* the literal of main.py:279, 282, 311
Repr == <<"repr">>                  \* str(sender) of an object that is no User
Media == <<"[media]">>              \* the literal of main.py:373

User(first_name, last_name, username) ==
    [type |-> "User", first_name |-> first_name, last_name |-> last_name,
     username |-> username, title |-> None]
Channel(title) ==
    [type |-> "Channel", first_name |-> None, last_name |-> None,
     username |-> None, title |-> Some(title)]
ChatEmpty ==
    [type |-> "ChatEmpty", first_name |-> None, last_name |-> None,
     username |-> None, title |-> None]

AnnLee == User(Some(Ann), Some(Lee), Some(Handle))
AnnOnly == User(Some(Ann), Some(<<>>), None)
HandleOnly == User(None, None, Some(Handle))
Nameless == User(Some(Blank), None, Some(<<>>))
Users == {AnnLee, AnnOnly, HandleOnly, Nameless}
Chats == {Channel(Title), Channel(<<>>), ChatEmpty}

\* hasattr(chat, 'title'), hasattr(chat, 'first_name'), isinstance(x, User)
HasTitle(e) == e.type = "Channel"
HasFirstName(e) == e.type = "User"
IsUser(e) == e.type = "User"

\* The answer of an awaited platform call: not made, raised, or returned val.
NotCalled == [status |-> "notcalled", val |-> None]
Raised == [status |-> "raised", val |-> None]
Returned(v) == [status |-> "ok", val |-> v]

\* message.get_sender() in a private chat: raises, returns None or a User.
GetSenderAnswers == {Raised, Returned(None)} \cup {Returned(Some(u)) : u \in Users}
\* client.get_entity(chat_id) of a private chat: raises or returns the User.
GetUserAnswers == {Raised} \cup {Returned(Some(u)) : u \in Users}
\* client.get_entity(chat_id) otherwise: raises or returns an entity.
GetEntityAnswers == {Raised} \cup {Returned(Some(e)) : e \in Users \cup Chats}
\* event.get_chat(): raises, returns None or an entity.
GetChatAnswers == {Raised, Returned(None)} \cup {Returned(Some(e)) : e \in Users \cup Chats}
\* event.get_chat() of a private chat: raises, returns None or the User.
GetUserChatAnswers == {Raised, Returned(None)} \cup {Returned(Some(u)) : u \in Users}

Texts == {None, Some(<<>>), Some(Hi)}
ChatTitles == {<<>>, Hint}
AttachedSenders == {None} \cup {Some(u) : u \in Users}

\* The message shapes fed to the two ingestion paths: private by peer_id,
\* private by to_id, a channel by peer_id, a group by the direct field, and
\* two shapes without a usable chat id (0, and nothing at all).
UserPeer == [kind |-> "PeerUser", id |-> 7]
IngestShapes ==
    { [chat_id |-> None,      peer_id |-> Some(UserPeer), to_id |-> None],
      [chat_id |-> None,      peer_id |-> None,           to_id |-> Some(UserPeer)],
      [chat_id |-> None,      peer_id |-> Some([kind |-> "PeerChannel", id |-> 555]),
                                                          to_id |-> None],
      [chat_id |-> Some(100), peer_id |-> Some([kind |-> "PeerChat", id |-> 7]),
                                                          to_id |-> None],
      [chat_id |-> Some(0),   peer_id |-> Some([kind |-> "PeerChannel", id |-> 0]),
                                                          to_id |-> None],
      [chat_id |-> None,      peer_id |-> None,           to_id |-> None] }

\* A message: the attributes id, text, chat_id, peer_id, to_id, sender, date.
Message(id, text, shape, sender) ==
    [id |-> id, text |-> text, chat_id |-> shape.chat_id, peer_id |-> shape.peer_id,
     to_id |-> shape.to_id, sender |-> sender, date |-> 1]
NoShape == [chat_id |-> None, peer_id |-> None, to_id |-> None]
NoMessage == Message(0, None, NoShape, None)

\* f"{x.first_name or ''} {x.last_name or ''}".strip()  (main.py:262, 277, 311, 341)
full_name(e) == strip(OrStr(e.first_name, <<>>) \o <<" ">> \o OrStr(e.last_name, <<>>))

\* A plausible slip: the .strip() is forgotten.
sender_name_unstripped(sender) ==
    IF TruthyObj(sender)
    THEN IF IsUser(Get(sender))
         THEN LET e == Get(sender)
                  n == OrStr(e.first_name, <<>>) \o <<" ">> \o OrStr(e.last_name, <<>>)
              IN IF n # <<>> THEN n ELSE OrStr(e.username, Unknown)
         ELSE Repr
    ELSE Unknown

\* "Формируем имя отправителя" (main.py:259-268, and again 338-347).
sender_name(sender) ==
    IF TruthyObj(sender)
    THEN IF IsUser(Get(sender))
         THEN LET n == full_name(Get(sender))
              IN IF n # <<>> THEN n ELSE OrStr(Get(sender).username, Unknown)
         ELSE Repr
    ELSE Unknown

\* save_messages_to_db, private chat: where the sender comes from
\* (main.py:242-257).  gs answers message.get_sender(), ge answers
\* client.get_entity(chat_id); an answer NotCalled was not asked for.
batch_sender(attached, gs, ge) ==
    IF TruthyObj(attached) THEN [sender |-> attached, logged |-> {}]
    ELSE IF gs.status = "ok" THEN [sender |-> gs.val, logged |-> {}]
    ELSE IF ge.status = "ok" THEN [sender |-> ge.val, logged |-> {"debug_get_sender"}]
    ELSE [sender |-> None, logged |-> {"debug_get_sender", "warn_no_sender"}]

\* save_messages_to_db, group or channel: the label (main.py:269-282).
batch_chat_label(ge, title_arg) ==
    IF ge.status = "ok"
    THEN LET chat == Get(ge.val)
         IN IF HasTitle(chat) THEN [label |-> chat.title, logged |-> {}]
            ELSE IF HasFirstName(chat) THEN [label |-> Some(full_name(chat)), logged |-> {}]
            ELSE [label |-> Some(IF title_arg # <<>> THEN title_arg ELSE UnknownChat),
                  logged |-> {}]
    ELSE [label |-> Some(IF title_arg # <<>> THEN title_arg ELSE UnknownChat),
          logged |-> {"warn_no_chat"}]

\* A plausible slip: the handler looks at the title only.
live_chat_title_only(chat) ==
    IF chat # None /\ HasTitle(Get(chat)) THEN Get(chat).title
    ELSE Some(UnknownChat)

\* handler: chat_title (main.py:309-312); chat is what event.get_chat() returned.
live_chat_title(chat) ==
    IF chat # None /\ HasTitle(Get(chat)) THEN Get(chat).title
    ELSE IF chat # None /\ HasFirstName(Get(chat)) THEN Some(full_name(Get(chat)))
    ELSE Some(UnknownChat)

\* handler, private chat: where the sender comes from (main.py:320-336).
live_sender(attached, gs, chat) ==
    IF TruthyObj(attached) THEN attached
    ELSE IF gs.status = "ok" THEN gs.val
    ELSE IF chat # None /\ IsUser(Get(chat)) THEN chat
    ELSE None

\* Plausible slips: `is not None` in place of the truth value.
text_not_none(message) == message.text # None
chat_id_is_none(chat_id) == chat_id = None

\* `if message.text:` (main.py:231 and main.py:379)
has_text(message) == TruthyStr(message.text)
\* `if not chat_id:` (main.py:233), the negation of `if chat_id:` (main.py:381)
no_chat_id(chat_id) == ~TruthyInt(chat_id)

\* What is remembered of the message processed last.
Step(path, m, chat_id, private, gs, ge, chat, sender, call, fault, inserted, logged, printed, saved_before, skipped_before) ==
    [path |-> path, m |-> m, chat_id |-> chat_id, private |-> private,
     gs |-> gs, ge |-> ge, chat |-> chat, sender |-> sender, call |-> call,
     fault |-> fault, inserted |-> inserted, logged |-> logged,
     printed |-> printed, saved_before |-> saved_before,
     skipped_before |-> skipped_before]

NoStep ==
    Step("none", NoMessage, None, FALSE, NotCalled, NotCalled,
         NotCalled, None, None, FALSE, FALSE, {}, None, 0, 0)

\* The arguments of a db.save_message call.
Call(message_id, chat_id, sender, text, date) ==
    [message_id |-> message_id, chat_id |-> chat_id, sender |-> sender,
     text |-> text, date |-> date]

\* A label not computed yet.
NoLabel == [status |-> "pending", label |-> None]
\* No message is being labelled.
NoLab == [m |-> NoMessage, gs |-> NotCalled, entity |-> NotCalled, hint |-> <<>>,
          batch |-> NoLabel, live |-> NoLabel]

-----------------------------------------------------------------------------
(* The store harness: Database operations in any order.                     *)

\* Database() on a new file (db.py:18-26): the table exists and is empty.
\* Nothing else is in use.
InitStore ==
    /\ rows = {}
    /\ hist = <<>>
    /\ msg = None /\ res = None
    /\ pc = "idle" /\ pos = 0 /\ blen = 0 /\ chat_title = <<>>
    /\ saved_count = 0 /\ skipped_count = 0 /\ summaries = 0
    /\ cur = NoStep
    /\ race = NoRace
    /\ batch = <<>> /\ fpc = "idle" /\ bout = <<>> /\ lout = <<>> /\ rows1 = {}
    /\ conn = NoConnect /\ pull = NoPull /\ run = NoRun
    /\ dbs = NoDb /\ sub = NoSub /\ lab = NoLab /\ again = NoAgain

SaveMessage ==
    /\ \E message_id \in MsgIds, chat_id \in StoreChatIds,
          sender \in StoreSenders, fault \in BOOLEAN :
           LET r == save_message(rows, message_id, Some(chat_id), sender,
                                 Some(Hi), 1, fault)
           IN /\ rows' = r.rows
              /\ hist' = Remember(Op("save", message_id, Some(chat_id), fault,
                                     r.ret, 0, rows))
    /\ UNCHANGED <<laterVars, resolveVars, ingestVars>>

GetMessageCount ==
    /\ \E chat_id \in CountArgs, fault \in BOOLEAN :
           hist' = Remember(Op("count", 0, chat_id, fault, FALSE,
                               get_message_count(rows, chat_id, fault), rows))
    /\ UNCHANGED <<laterVars, rows, resolveVars, ingestVars>>

\* Database.init_database (db.py:39-70): CREATE ... IF NOT EXISTS on the
\* existing table and indexes touches no row.
InitDatabase ==
    /\ hist' = Remember(Op("init", 0, None, FALSE, FALSE, 0, rows))
    /\ UNCHANGED <<laterVars, rows, resolveVars, ingestVars>>

NextStore ==
    \/ SaveMessage
    \/ GetMessageCount
    \/ InitDatabase

SpecStore == InitStore /\ [][NextStore]_vars

-----------------------------------------------------------------------------
(* Two or more logical flows of the one worker (the historical loop and the *)
(* handler) save the same (message_id, chat_id) pair.  save_message holds   *)
(* no await (db.py:72-120), so one call is one step of the worker; what     *)
(* varies is the order of the flows and the store they meet.                *)

\* Database() on a new file; no pair is being saved.
InitRace ==
    /\ rows = {}
    /\ hist = <<>>
    /\ msg = None /\ res = None
    /\ pc = "idle" /\ pos = 0 /\ blen = 0 /\ chat_title = <<>>
    /\ saved_count = 0 /\ skipped_count = 0 /\ summaries = 0
    /\ cur = NoStep
    /\ race = NoRace
    /\ batch = <<>> /\ fpc = "idle" /\ bout = <<>> /\ lout = <<>> /\ rows1 = {}
    /\ conn = NoConnect /\ pull = NoPull /\ run = NoRun
    /\ dbs = NoDb /\ sub = NoSub /\ lab = NoLab /\ again = NoAgain

\* An earlier save_message call (db.py:72-120), before the flows meet.
EarlierSave ==
    /\ race.pair = None
    /\ \E message_id \in MsgIds, chat_id \in StoreChatIds, sender \in StoreSenders :
           rows' = save_message(rows, message_id, Some(chat_id), sender,
                                Some(Hi), 1, FALSE).rows
    /\ UNCHANGED <<restVars, mainVars, feedVars, race, hist, resolveVars, ingestVars>>

\* The same message reaches the flows: each is about to call save_message
\* with the same message_id and chat_id.
FlowsMeet ==
    /\ race.pair = None
    /\ \E message_id \in MsgIds, chat_id \in StoreChatIds :
           race' = [pair |-> Some([id |-> message_id, chat_id |-> chat_id]),
                    before |-> rows,
                    ret |-> [f \in Flows |-> "pending"]]
    /\ UNCHANGED <<restVars, mainVars, feedVars, rows, hist, resolveVars, ingestVars>>

\* Flow f calls save_message (db.py:72-120) for the pair; the sender label
\* is the flow's own.  "failed" is the False of the except branch
\* (db.py:118-120).
FlowSave ==
    /\ race.pair # None
    /\ \E f \in Flows, sender \in StoreSenders, fault \in BOOLEAN :
          /\ race.ret[f] = "pending"
          /\ LET r == save_message(rows, Get(race.pair).id, Some(Get(race.pair).chat_id),
                                   sender, Some(Hi), 1, fault)
             IN /\ rows' = r.rows
                /\ race' = [race EXCEPT !.ret[f] = IF fault THEN "failed"
                                                   ELSE IF r.ret THEN "true" ELSE "false"]
    /\ UNCHANGED <<restVars, mainVars, feedVars, hist, resolveVars, ingestVars>>

NextRace ==
    \/ EarlierSave
    \/ FlowsMeet
    \/ FlowSave

SpecRace == InitRace /\ [][NextRace]_vars

-----------------------------------------------------------------------------
(* The database file over the life of several processes: every Database     *)
(* operation with the place where the storage layer fails in it, the        *)
(* connections the operations leave open, and the rows in the order they    *)
(* were inserted.  No operation holds an await, so each is one step.        *)

\* No file, no process.
InitDb ==
    /\ rows = {}
    /\ hist = <<>>
    /\ msg = None /\ res = None
    /\ pc = "idle" /\ pos = 0 /\ blen = 0 /\ chat_title = <<>>
    /\ saved_count = 0 /\ skipped_count = 0 /\ summaries = 0
    /\ cur = NoStep
    /\ race = NoRace
    /\ batch = <<>> /\ fpc = "idle" /\ bout = <<>> /\ lout = <<>> /\ rows1 = {}
    /\ conn = NoConnect /\ pull = NoPull /\ run = NoRun
    /\ dbs = NoDb /\ sub = NoSub /\ lab = NoLab /\ again = NoAgain

\* What an init_database call with the result r leaves in dbs.
AfterInit(r, fault, made) ==
    /\ rows' = r.rows
    /\ dbs' = [dbs EXCEPT !.made = made,
                          !.schema = r.schema,
                          !.open = IF r.left_open THEN @ + 1 ELSE @,
                          !.last = DbOp("init", fault, None, FALSE, r.raised)]
    /\ UNCHANGED <<notDb, race, feedVars, mainVars, hist, resolveVars, ingestVars>>

\* db = Database() at the start of a process (main.py:37, db.py:18-26):
\* init_database runs; when it raises there is no Database object and the
\* import of main.py fails.
NewDatabase ==
    /\ ~dbs.made /\ dbs.last.op \in {"none", "exit"}
    /\ \E fault \in InitFaults :
          /\ fault \notin {"none", "connect"} => dbs.open < MaxUnclosed
          /\ LET r == init_database(dbs.schema, rows, fault)
             IN AfterInit(r, fault, ~r.raised)

\* init_database called again on the Database object (db.py:39-70).
InitDatabaseAgain ==
    /\ dbs.made
    /\ \E fault \in InitFaults :
          /\ fault \notin {"none", "connect"} => dbs.open < MaxUnclosed
          /\ LET r == init_database(dbs.schema, rows, fault)
             IN AfterInit(r, fault, TRUE)

\* Database.save_message (db.py:72-120).
DbSaveMessage ==
    /\ dbs.made
    /\ \E message_id \in MsgIds, chat_id \in StoreChatIds, fault \in DbFaults :
          /\ leaves_open(fault) => dbs.open < MaxUnclosed
          /\ LET r == save_message(rows, message_id, Some(chat_id), Some(Bob),
                                   Some(Hi), 1, fault # "none")
                 row == Row(message_id, chat_id, Some(Bob), Some(Hi), 1)
             IN /\ rows' = r.rows
                /\ dbs' = [dbs EXCEPT
                             !.open = IF leaves_open(fault) THEN @ + 1 ELSE @,
                             !.kept = IF r.ret THEN Append(@, row) ELSE @,
                             !.tried = @ \cup {message_id},
                             !.last = DbOp("save", fault,
                                           Some([message_id |-> message_id,
                                                 chat_id |-> chat_id]),
                                           r.ret, r.raised)]
    /\ UNCHANGED <<notDb, race, feedVars, mainVars, hist, resolveVars, ingestVars>>

\* Database.get_message_count (db.py:122-146); it has no commit.
DbGetMessageCount ==
    /\ dbs.made
    /\ \E fault \in DbFaults \ {"commit"} :
          /\ leaves_open(fault) => dbs.open < MaxUnclosed
          /\ dbs' = [dbs EXCEPT
                       !.open = IF leaves_open(fault) THEN @ + 1 ELSE @,
                       !.last = DbOp("count", fault, None, FALSE, FALSE)]
    /\ UNCHANGED <<notDb, race, feedVars, mainVars, rows, hist, resolveVars, ingestVars>>

\* The interpreter finalizes a connection object that was left open, which
\* closes it; when it does so is not in the hands of the code.
Finalize ==
    /\ dbs.open > 0
    /\ dbs' = [dbs EXCEPT !.open = @ - 1]
    /\ UNCHANGED <<notDb, race, feedVars, mainVars, rows, hist, resolveVars, ingestVars>>

\* The process ends: its connections are gone, the file stays.
ProcessEnds ==
    /\ dbs.last.op # "none"
    /\ dbs.made \/ dbs.last.raised
    /\ dbs' = [dbs EXCEPT !.made = FALSE, !.open = 0,
                          !.last = DbOp("exit", "none", None, FALSE, FALSE)]
    /\ UNCHANGED <<notDb, race, feedVars, mainVars, rows, hist, resolveVars, ingestVars>>

NextDb ==
    \/ NewDatabase
    \/ InitDatabaseAgain
    \/ DbSaveMessage
    \/ DbGetMessageCount
    \/ Finalize
    \/ ProcessEnds

SpecDb == InitDb /\ [][NextDb]_vars

-----------------------------------------------------------------------------
(* The resolver harness.                                                    *)

\* Resolver harness: a message shape is drawn, then both functions are
\* applied to it.
InitResolve ==
    /\ msg \in {None} \cup {Some(m) : m \in MessageShapes}
    /\ res = None
    /\ rows = {} /\ hist = <<>>
    /\ pc = "idle" /\ pos = 0 /\ blen = 0 /\ chat_title = <<>>
    /\ saved_count = 0 /\ skipped_count = 0 /\ summaries = 0
    /\ cur = NoStep
    /\ race = NoRace
    /\ batch = <<>> /\ fpc = "idle" /\ bout = <<>> /\ lout = <<>> /\ rows1 = {}
    /\ conn = NoConnect /\ pull = NoPull /\ run = NoRun
    /\ dbs = NoDb /\ sub = NoSub /\ lab = NoLab /\ again = NoAgain

Resolve ==
    /\ res' = Some([chat_id |-> get_chat_id_from_message(msg),
                    is_private |-> is_private_chat(msg)])
    /\ UNCHANGED <<laterVars, msg, storeVars, ingestVars>>

NextResolve == Resolve

SpecResolve == InitResolve /\ [][NextResolve]_vars

-----------------------------------------------------------------------------
(* The resolver called again and again on one message while the store and   *)
(* the session change between the calls.                                    *)

\* One call of the two resolver functions: what they returned, and the
\* whether rows were stored and the session state they were called in.
ResolverCall(chat_id, is_private, stored, connected, is_running) ==
    [chat_id |-> chat_id, is_private |-> is_private, stored |-> stored,
     connected |-> connected, is_running |-> is_running]

\* A message shape is drawn; the store is empty, the bot is not connected.
InitAgain ==
    /\ msg \in {None} \cup {Some(m) : m \in MessageShapes}
    /\ res = None
    /\ rows = {} /\ hist = <<>>
    /\ pc = "idle" /\ pos = 0 /\ blen = 0 /\ chat_title = <<>>
    /\ saved_count = 0 /\ skipped_count = 0 /\ summaries = 0
    /\ cur = NoStep
    /\ race = NoRace
    /\ batch = <<>> /\ fpc = "idle" /\ bout = <<>> /\ lout = <<>> /\ rows1 = {}
    /\ conn = NoConnect /\ pull = NoPull /\ run = NoRun
    /\ dbs = NoDb /\ sub = NoSub /\ lab = NoLab /\ again = NoAgain

\* get_chat_id_from_message(message) and is_private_chat(message) are
\* called (main.py:232, 240, 318, 380).
ResolveAgain ==
    /\ Len(again.results) < MaxCalls
    /\ again' = [again EXCEPT !.results =
                   Append(@, ResolverCall(get_chat_id_from_message(msg),
                                          is_private_chat(msg), rows # {},
                                          again.connected, again.is_running))]
    /\ UNCHANGED <<notAgain, race, feedVars, mainVars, storeVars, resolveVars, ingestVars>>

\* Between two calls a message is stored (db.py:72-120).
StoreChanges ==
    /\ \E message_id \in MsgIds :
          /\ rows' = save_message(rows, message_id, Some(100), Some(Bob), Some(Hi),
                                  1, FALSE).rows
          /\ rows' # rows
    /\ UNCHANGED <<restVars, race, feedVars, mainVars, hist, resolveVars, ingestVars>>

\* Between two calls the bot connects or is disconnected (main.py:123-152,
\* 409-415).
SessionChanges ==
    /\ again' = [again EXCEPT !.connected = ~@]
    /\ UNCHANGED <<notAgain, race, feedVars, mainVars, storeVars, resolveVars, ingestVars>>

\* Between two calls start_listening sets is_running (main.py:402).
SessionListens ==
    /\ again.connected /\ ~again.is_running
    /\ again' = [again EXCEPT !.is_running = TRUE]
    /\ UNCHANGED <<notAgain, race, feedVars, mainVars, storeVars, resolveVars, ingestVars>>

NextAgain ==
    \/ ResolveAgain
    \/ StoreChanges
    \/ SessionChanges
    \/ SessionListens

SpecAgain == InitAgain /\ [][NextAgain]_vars

-----------------------------------------------------------------------------
(* The two ingestion paths of TelegramBot: save_messages_to_db over a       *)
(* batch, one message per step, and the NewMessage handler, one event per   *)
(* step.  The attributes of a message and the answers of the platform are   *)
(* drawn when the code reads them; an attribute the code does not read for  *)
(* a message stays None, an answer not asked for stays NotCalled.  The      *)
(* console sender of the handler (main.py:352-370) is printed only and is   *)
(* left out of the printed line kept here.                                  *)

\* An empty store (db.py:18-26, main.py:37) and a bot that has neither a
\* batch nor the handler running.
InitIngest ==
    /\ rows = {} /\ hist = <<>>
    /\ msg = None /\ res = None
    /\ pc = "idle" /\ pos = 0 /\ blen = 0 /\ chat_title = <<>>
    /\ saved_count = 0 /\ skipped_count = 0 /\ summaries = 0
    /\ cur = NoStep
    /\ race = NoRace
    /\ batch = <<>> /\ fpc = "idle" /\ bout = <<>> /\ lout = <<>> /\ rows1 = {}
    /\ conn = NoConnect /\ pull = NoPull /\ run = NoRun
    /\ dbs = NoDb /\ sub = NoSub /\ lab = NoLab /\ again = NoAgain

\* save_messages_to_db is entered (main.py:219-228).
SaveMessagesStart ==
    /\ pc = "idle"
    /\ pc' = "batch"
    /\ blen' \in 0 .. MaxBatch
    /\ chat_title' \in ChatTitles
    /\ saved_count' = 0 /\ skipped_count' = 0 /\ pos' = 0
    /\ UNCHANGED <<laterVars, rows, hist, resolveVars, summaries, cur>>

BatchDone(step, t2, saved, skipped) ==
    /\ rows' = t2
    /\ cur' = step
    /\ pos' = pos + 1
    /\ saved_count' = saved_count + saved
    /\ skipped_count' = skipped_count + skipped
    /\ UNCHANGED <<laterVars, pc, blen, chat_title, summaries, hist, resolveVars>>

\* db.save_message and the counting that follows it (main.py:284-295).
BatchSave(m, chat_id, private, gs, ge, sender, label, logged) ==
    \E fault \in BOOLEAN :
        LET r == save_message(rows, m.id, chat_id, label, m.text, m.date, fault)
        IN BatchDone(Step("batch", m, chat_id, private, gs, ge, NotCalled, sender,
                          Some(Call(m.id, chat_id, label, m.text, m.date)),
                          fault, r.ret, logged, None, saved_count, skipped_count),
                     r.rows,
                     IF r.ret THEN 1 ELSE 0,
                     IF r.ret THEN 0 ELSE 1)

BatchSkip(m, chat_id, logged) ==
    BatchDone(Step("batch", m, chat_id, FALSE, NotCalled, NotCalled, NotCalled, None,
                   None, FALSE, FALSE, logged, None, saved_count, skipped_count),
              rows, 0, 0)

BatchPrivate(m, chat_id, gs, ge) ==
    LET s == batch_sender(m.sender, gs, ge)
    IN BatchSave(m, chat_id, TRUE, gs, ge, s.sender,
                 Some(sender_name(s.sender)), s.logged)

\* One iteration of the loop of save_messages_to_db (main.py:230-295).
BatchMessage ==
    /\ pc = "batch" /\ pos < blen
    /\ \E id \in MsgIds, text \in Texts :
          IF ~has_text(Message(id, text, NoShape, None))
          THEN BatchSkip(Message(id, text, NoShape, None), None, {})
          ELSE \E shape \in IngestShapes :
            LET m0 == Message(id, text, shape, None)
                chat_id == get_chat_id_from_message(Some(m0))
            IN IF no_chat_id(chat_id)
               THEN BatchSkip(m0, chat_id, {"warn_no_chat_id"})
               ELSE IF is_private_chat(Some(m0))
               THEN \E attached \in AttachedSenders :
                      LET m == Message(id, text, shape, attached)
                      IN IF TruthyObj(attached)
                         THEN BatchPrivate(m, chat_id, NotCalled, NotCalled)
                         ELSE \E gs \in GetSenderAnswers :
                                IF gs.status = "ok"
                                THEN BatchPrivate(m, chat_id, gs, NotCalled)
                                ELSE \E ge \in GetUserAnswers :
                                       BatchPrivate(m, chat_id, gs, ge)
               ELSE \E ge \in GetEntityAnswers :
                      LET c == batch_chat_label(ge, chat_title)
                      IN BatchSave(m0, chat_id, FALSE, NotCalled, ge, None,
                                   c.label, c.logged)

\* The loop is over: the summary is logged (main.py:297).
SaveMessagesEnd ==
    /\ pc = "batch" /\ pos = blen
    /\ pc' = "done"
    /\ summaries' = summaries + 1
    /\ UNCHANGED <<laterVars, rows, hist, resolveVars, pos, blen, chat_title, saved_count,
                   skipped_count, cur>>

\* start_listening registers the handler (main.py:395-407).
StartListening ==
    /\ pc = "idle"
    /\ pc' = "listening"
    /\ UNCHANGED <<laterVars, rows, hist, resolveVars, pos, blen, chat_title, saved_count,
                   skipped_count, summaries, cur>>

LiveDone(step, t2) ==
    /\ rows' = t2
    /\ cur' = step
    /\ pos' = pos + 1
    /\ UNCHANGED <<laterVars, pc, blen, chat_title, saved_count, skipped_count, summaries,
                   hist, resolveVars>>

\* The handler from the print on (main.py:372-388).
LiveTail(m, private, gs, chat, sender, label) ==
    LET printed == Some([chat_title |-> live_chat_title(chat.val),
                         text |-> OrStr(m.text, Media)])
    IN IF has_text(m)
       THEN LET chat_id == get_chat_id_from_message(Some(m))
            IN IF ~no_chat_id(chat_id)
               THEN \E fault \in BOOLEAN :
                      LET r == save_message(rows, m.id, chat_id, label, m.text,
                                            m.date, fault)
                      IN LiveDone(Step("live", m, chat_id, private, gs, NotCalled,
                                       chat, sender,
                                       Some(Call(m.id, chat_id, label, m.text, m.date)),
                                       fault, r.ret, {}, printed, 0, 0),
                                  r.rows)
               ELSE LiveDone(Step("live", m, chat_id, private, gs, NotCalled, chat,
                                  sender, None, FALSE, FALSE, {}, printed, 0, 0),
                             rows)
       ELSE LiveDone(Step("live", m, None, private, gs, NotCalled, chat, sender,
                          None, FALSE, FALSE, {}, printed, 0, 0),
                     rows)

LivePrivate(m, gs, chat) ==
    LET sender == live_sender(m.sender, gs, chat.val)
    IN LiveTail(m, TRUE, gs, chat, sender, Some(sender_name(sender)))

\* One run of the NewMessage handler (main.py:302-391).
NewMessage ==
    /\ pc = "listening" /\ pos < MaxLive
    /\ \E id \in MsgIds, text \in Texts, shape \in IngestShapes :
          LET private == is_private_chat(Some(Message(id, text, shape, None)))
          IN \E chat \in (IF private THEN GetUserChatAnswers ELSE GetChatAnswers) :
             IF chat.status = "raised"
             THEN LiveDone(Step("live", NoMessage, None, FALSE, NotCalled, NotCalled,
                                chat, None, None, FALSE, FALSE, {"error"}, None, 0, 0),
                           rows)
             ELSE IF private
             THEN \E attached \in AttachedSenders :
                    LET m == Message(id, text, shape, attached)
                    IN IF TruthyObj(attached)
                       THEN LivePrivate(m, NotCalled, chat)
                       ELSE \E gs \in GetSenderAnswers : LivePrivate(m, gs, chat)
             ELSE LiveTail(Message(id, text, shape, None), FALSE, NotCalled, chat,
                           None, live_chat_title(chat.val))

NextIngest ==
    \/ SaveMessagesStart
    \/ BatchMessage
    \/ SaveMessagesEnd
    \/ StartListening
    \/ NewMessage

SpecIngest == InitIngest /\ [][NextIngest]_vars

-----------------------------------------------------------------------------
(* One batch of messages of one chat given to save_messages_to_db twice,    *)
(* or given to save_messages_to_db and, as events, to the handler.  The     *)
(* ids of a chat's messages are distinct; the platform's answers are drawn  *)
(* anew for every step.  The handler awaits only before its save, and the   *)
(* loop only before its save, so a step of either is the lookups and the    *)
(* save of one message.                                                     *)

FeedShapes ==
    { [chat_id |-> None,      peer_id |-> Some(UserPeer), to_id |-> None],
      [chat_id |-> Some(100), peer_id |-> Some([kind |-> "PeerChat", id |-> 7]),
                                                          to_id |-> None] }
FeedTexts == {None, Some(Hi)}
\* message.get_sender() and client.get_entity(chat_id) of a private chat
FeedSenderAnswers == {Raised, Returned(Some(AnnLee))}
\* client.get_entity(chat_id) of a group
FeedEntityAnswers == {Raised, Returned(Some(Channel(Title)))}
\* event.get_chat()
FeedChatAnswers(private) ==
    {Raised, Returned(None),
     Returned(Some(IF private THEN AnnLee ELSE Channel(Title)))}

\* save_messages_to_db: the sender_name passed to db.save_message
\* (main.py:236-282).
batch_label(m, gs, ge, title_arg) ==
    IF is_private_chat(Some(m))
    THEN Some(sender_name(batch_sender(m.sender, gs, ge).sender))
    ELSE batch_chat_label(ge, title_arg).label

\* handler: the sender_name passed to db.save_message (main.py:314-350).
live_label(m, gs, chat) ==
    IF is_private_chat(Some(m))
    THEN Some(sender_name(live_sender(m.sender, gs, chat)))
    ELSE live_chat_title(chat)

\* What a step did: the db.save_message call it made (None: no call), and
\* of that call whether the storage layer failed, what it returned, whether
\* it left the rows as they were and whether it was left by an exception.
Outcome(call, fault, inserted, unchanged, raised) ==
    [call |-> call, fault |-> fault, inserted |-> inserted,
     unchanged |-> unchanged, raised |-> raised]
NoCall == Outcome(None, FALSE, FALSE, TRUE, FALSE)

\* An empty store, no batch.
InitFeed ==
    /\ rows = {} /\ hist = <<>>
    /\ msg = None /\ res = None
    /\ pc = "idle" /\ pos = 0 /\ blen = 0 /\ chat_title = <<>>
    /\ saved_count = 0 /\ skipped_count = 0 /\ summaries = 0
    /\ cur = NoStep
    /\ race = NoRace
    /\ batch = <<>> /\ fpc = "idle" /\ bout = <<>> /\ lout = <<>> /\ rows1 = {}
    /\ conn = NoConnect /\ pull = NoPull /\ run = NoRun
    /\ dbs = NoDb /\ sub = NoSub /\ lab = NoLab /\ again = NoAgain

\* get_chat_messages has returned the messages of one chat (main.py:196-217)
\* and save_messages_to_db is entered with them (main.py:219-228); with
\* `live` the handler is registered as well (main.py:302-304) and the same
\* messages will reach it as events.
FeedEnter(live) ==
    /\ \E shape \in FeedShapes, n \in 0 .. MaxFeed :
         \E texts \in [1 .. n -> FeedTexts] :
            batch' = [i \in 1 .. n |-> Message(i, texts[i], shape, None)]
    /\ blen' = Len(batch')
    /\ chat_title' \in ChatTitles
    /\ fpc' = IF live THEN "both" ELSE "first"
    /\ pc' = "batch"
    /\ pos' = 0 /\ saved_count' = 0 /\ skipped_count' = 0
    /\ UNCHANGED <<restVars, mainVars, rows, hist, resolveVars, summaries, cur, race, bout, lout, rows1>>

ReplayStart ==
    /\ fpc = "idle" /\ pc = "idle"
    /\ FeedEnter(FALSE)

BothStart ==
    /\ fpc = "idle" /\ pc = "idle"
    /\ FeedEnter(TRUE)

FeedBatchDone(o, t2, saved, skipped) ==
    /\ rows' = t2
    /\ bout' = Append(bout, o)
    /\ pos' = pos + 1
    /\ saved_count' = saved_count + saved
    /\ skipped_count' = skipped_count + skipped
    /\ UNCHANGED <<restVars, mainVars, pc, fpc, batch, lout, rows1, blen, chat_title, summaries, hist,
                   resolveVars, cur, race>>

\* db.save_message raised: nothing in the loop catches it (main.py:230-295),
\* save_messages_to_db is left by the exception.
FeedBatchRaised(o) ==
    /\ pc' = "raised"
    /\ bout' = Append(bout, o)
    /\ UNCHANGED <<restVars, mainVars, rows, pos, saved_count, skipped_count, fpc, batch, lout, rows1,
                   blen, chat_title, summaries, hist, resolveVars, cur, race>>

\* One iteration of the loop of save_messages_to_db (main.py:230-295) on
\* the next message of the batch.
FeedBatchMessage ==
    /\ pc = "batch" /\ fpc # "idle" /\ pos < blen
    /\ LET m == batch[pos + 1]
           chat_id == get_chat_id_from_message(Some(m))
       IN IF ~has_text(m) \/ no_chat_id(chat_id)
          THEN FeedBatchDone(NoCall, rows, 0, 0)
          ELSE \E gs \in FeedSenderAnswers, fault \in BOOLEAN :
               \E ge \in (IF is_private_chat(Some(m)) THEN FeedSenderAnswers
                                                       ELSE FeedEntityAnswers) :
                 LET label == batch_label(m, gs, ge, chat_title)
                     r == save_message(rows, m.id, chat_id, label, m.text, m.date, fault)
                     call == Some(Call(m.id, chat_id, label, m.text, m.date))
                 IN IF r.raised
                    THEN FeedBatchRaised(Outcome(call, fault, FALSE, TRUE, TRUE))
                    ELSE FeedBatchDone(Outcome(call, fault, r.ret, r.rows = rows, FALSE),
                                       r.rows,
                                       IF r.ret THEN 1 ELSE 0,
                                       IF r.ret THEN 0 ELSE 1)

\* The loop is over: the summary is logged (main.py:297).
FeedBatchEnd ==
    /\ pc = "batch" /\ fpc # "idle" /\ pos = blen
    /\ pc' = "done"
    /\ summaries' = summaries + 1
    /\ rows1' = IF fpc = "first" THEN rows ELSE rows1
    /\ UNCHANGED <<restVars, mainVars, rows, hist, resolveVars, pos, blen, chat_title, saved_count,
                   skipped_count, cur, race, batch, fpc, bout, lout>>

\* save_messages_to_db is entered again with the same messages and title
\* (main.py:219-228).
ReplayAgain ==
    /\ fpc = "first" /\ pc = "done"
    /\ fpc' = "second"
    /\ pc' = "batch"
    /\ pos' = 0 /\ saved_count' = 0 /\ skipped_count' = 0
    /\ UNCHANGED <<restVars, mainVars, rows, hist, resolveVars, blen, chat_title, summaries, cur, race,
                   batch, bout, lout, rows1>>

\* One run of the handler (main.py:302-391) on the next message as an event.
\* An exception of get_chat or of db.save_message ends the run in the
\* `except Exception` of main.py:390.
FeedLive ==
    /\ fpc = "both" /\ Len(lout) < Len(batch)
    /\ LET m == batch[Len(lout) + 1]
           chat_id == get_chat_id_from_message(Some(m))
       IN \E chat \in FeedChatAnswers(is_private_chat(Some(m))),
             gs \in FeedSenderAnswers, fault \in BOOLEAN :
            IF chat.status = "raised" \/ ~has_text(m) \/ no_chat_id(chat_id)
            THEN /\ lout' = Append(lout, NoCall)
                 /\ rows' = rows
            ELSE LET label == live_label(m, gs, chat.val)
                     r == save_message(rows, m.id, chat_id, label, m.text, m.date, fault)
                     call == Some(Call(m.id, chat_id, label, m.text, m.date))
                 IN /\ lout' = Append(lout, Outcome(call, fault, r.ret, r.rows = rows,
                                                    r.raised))
                    /\ rows' = r.rows
    /\ UNCHANGED <<restVars, mainVars, hist, resolveVars, ingestVars, race, batch, fpc, bout, rows1>>

NextFeed ==
    \/ ReplayStart
    \/ BothStart
    \/ FeedBatchMessage
    \/ FeedBatchEnd
    \/ ReplayAgain
    \/ FeedLive

SpecFeed == InitFeed /\ [][NextFeed]_vars

-----------------------------------------------------------------------------
(* The live subscription of one TelegramBot: start_listening, the events    *)
(* that reach the handler and what fails while one is handled, the end of   *)
(* the live loop.  A run of the handler is one step.                        *)

\* What can fail while the handler handles an event: event.get_chat()
\* (main.py:307), message.get_sender() (main.py:328, 360), the print
\* (main.py:376), the storage layer inside db.save_message (main.py:382).
HandlerFailures == {"none", "get_chat", "get_sender", "print", "save"}

\* A plausible slip: the try statement starts after the chat lookup.
handler_ends_lookup_unguarded(failure) ==
    IF failure = "get_chat" THEN "escaped"
    ELSE IF failure = "print" THEN "logged"
    ELSE "completed"

\* How a run of the handler ends (main.py:305-391).  An exception of
\* get_chat or of print reaches `except Exception` (main.py:390-391) and is
\* logged; one of get_sender is caught where it is raised (main.py:329,
\* 361); a storage failure is no exception (db.py:118-120).  "escaped": the
\* exception leaves the handler.
handler_ends(failure) ==
    IF failure \in {"get_chat", "print"} THEN "logged" ELSE "completed"

\* A plausible slip: start_listening does not look at is_running.
start_listening_unguarded(is_running, handlers) ==
    [is_running |-> TRUE, handlers |-> handlers + 1, waits |-> TRUE]

\* TelegramBot.start_listening (main.py:395-407) up to the wait: when
\* is_running is set it warns and returns; else it registers the handler
\* (main.py:299-303, 401), sets is_running and waits in
\* run_until_disconnected.
start_listening(is_running, handlers) ==
    IF is_running
    THEN [is_running |-> is_running, handlers |-> handlers, waits |-> FALSE]
    ELSE [is_running |-> TRUE, handlers |-> handlers + 1, waits |-> TRUE]

\* One run of the handler, as sub.outs keeps it.
HandlerRun(failure, ends, call, inserted) ==
    [failure |-> failure, ends |-> ends, call |-> call, inserted |-> inserted]

\* An empty store; a bot that start_listening was not called on.
InitLive ==
    /\ rows = {} /\ hist = <<>>
    /\ msg = None /\ res = None
    /\ pc = "idle" /\ pos = 0 /\ blen = 0 /\ chat_title = <<>>
    /\ saved_count = 0 /\ skipped_count = 0 /\ summaries = 0
    /\ cur = NoStep
    /\ race = NoRace
    /\ batch = <<>> /\ fpc = "idle" /\ bout = <<>> /\ lout = <<>> /\ rows1 = {}
    /\ conn = NoConnect /\ pull = NoPull /\ run = NoRun
    /\ dbs = NoDb /\ sub = NoSub /\ lab = NoLab /\ again = NoAgain

\* await bot.start_listening() (main.py:395-407).
LiveStartListening ==
    /\ sub.at # "waiting" /\ sub.starts < MaxStarts
    /\ LET r == start_listening(sub.is_running, sub.handlers)
       IN sub' = [sub EXCEPT !.is_running = r.is_running,
                             !.handlers = r.handlers,
                             !.starts = @ + 1,
                             !.at = IF r.waits THEN "waiting" ELSE @]
    /\ UNCHANGED <<notSub, race, feedVars, mainVars, storeVars, resolveVars, ingestVars>>

\* An event reaches the registered handler while the client runs
\* (main.py:302-391).
LiveEvent ==
    /\ sub.at = "waiting" /\ sub.handlers > 0 /\ Len(sub.outs) < MaxEvents
    /\ \E id \in MsgIds, text \in FeedTexts, shape \in FeedShapes,
          failure \in HandlerFailures :
         LET m == Message(id, text, shape, None)
             private == is_private_chat(Some(m))
             chat == Some(IF private THEN AnnLee ELSE Channel(Title))
             gs == IF failure = "get_sender" THEN Raised ELSE Returned(Some(AnnLee))
             chat_id == get_chat_id_from_message(Some(m))
             ends == handler_ends(failure)
             saves == ends = "completed" /\ has_text(m) /\ ~no_chat_id(chat_id)
             r == save_message(rows, m.id, chat_id, live_label(m, gs, chat), m.text,
                               m.date, failure = "save")
         IN /\ failure = "get_sender" => private
            /\ failure = "save" => has_text(m)
            /\ rows' = IF saves THEN r.rows ELSE rows
            /\ sub' = [sub EXCEPT !.outs =
                         Append(@, HandlerRun(failure, ends,
                                              IF saves
                                              THEN Some([message_id |-> m.id,
                                                         chat_id |-> Get(chat_id)])
                                              ELSE None,
                                              saves /\ r.ret))]
    /\ UNCHANGED <<notSub, race, feedVars, mainVars, hist, resolveVars, ingestVars>>

\* run_until_disconnected returns (main.py:407): the client was
\* disconnected.  Nothing resets is_running.
LiveLoopEnds ==
    /\ sub.at = "waiting"
    /\ sub' = [sub EXCEPT !.at = "returned"]
    /\ UNCHANGED <<notSub, race, feedVars, mainVars, storeVars, resolveVars, ingestVars>>

\* await bot.disconnect() after the live loop (main.py:409-415, 485): the
\* client is disconnected; is_running and the handler are left as they are.
LiveDisconnect ==
    /\ sub.at = "returned"
    /\ sub' = [sub EXCEPT !.at = "disconnected"]
    /\ UNCHANGED <<notSub, race, feedVars, mainVars, storeVars, resolveVars, ingestVars>>

NextLive ==
    \/ LiveStartListening
    \/ LiveEvent
    \/ LiveLoopEnds
    \/ LiveDisconnect

SpecLive == InitLive /\ [][NextLive]_vars

-----------------------------------------------------------------------------
(* The label harness: one text message of a resolvable chat and one set of *)
(* platform answers (the attached sender, what get_sender() answers, the   *)
(* chat entity, which client.get_entity(chat_id) and event.get_chat() both *)
(* answer with), given to the labelling of save_messages_to_db and to that *)
(* of the handler.                                                          *)

\* The shapes of IngestShapes that have a chat id.
LabelShapes ==
    {shape \in IngestShapes :
        ~no_chat_id(get_chat_id_from_message(Some(Message(1, Some(Hi), shape, None))))}

\* A label that was passed to db.save_message.
Labelled(label) == [status |-> "saved", label |-> label]
\* The path ended before its save.
Aborted == [status |-> "aborted", label |-> None]

\* A message, the answers and the chat_title argument are drawn; an answer
\* the paths do not ask for is NotCalled.  The entity of a private chat is
\* a User.
InitLabel ==
    /\ rows = {} /\ hist = <<>>
    /\ msg = None /\ res = None
    /\ pc = "idle" /\ pos = 0 /\ blen = 0 /\ chat_title = <<>>
    /\ saved_count = 0 /\ skipped_count = 0 /\ summaries = 0
    /\ cur = NoStep
    /\ race = NoRace
    /\ batch = <<>> /\ fpc = "idle" /\ bout = <<>> /\ lout = <<>> /\ rows1 = {}
    /\ conn = NoConnect /\ pull = NoPull /\ run = NoRun
    /\ dbs = NoDb /\ sub = NoSub /\ again = NoAgain
    /\ \E shape \in LabelShapes, attached \in AttachedSenders,
          gs \in GetSenderAnswers \cup {NotCalled}, entity \in GetEntityAnswers,
          hint \in ChatTitles :
          LET private == is_private_chat(Some(Message(1, Some(Hi), shape, None)))
          IN /\ private => entity \in GetUserAnswers
             /\ private => (gs = NotCalled <=> attached # None)
             /\ ~private => (attached = None /\ gs = NotCalled)
             /\ lab = [m |-> Message(1, Some(Hi), shape, attached), gs |-> gs,
                       entity |-> entity, hint |-> hint,
                       batch |-> NoLabel, live |-> NoLabel]

\* save_messages_to_db computes the sender_name of the message and passes
\* it to db.save_message (main.py:236-290).
LabelInBatch ==
    /\ lab.batch.status = "pending"
    /\ lab' = [lab EXCEPT !.batch =
                 Labelled(batch_label(lab.m, lab.gs, lab.entity, lab.hint))]
    /\ UNCHANGED <<notLab, race, feedVars, mainVars, storeVars, resolveVars, ingestVars>>

\* The handler computes the sender_name of the message and passes it to
\* db.save_message (main.py:306-388); when event.get_chat() raises it ends
\* before (main.py:307, 390).
LabelInHandler ==
    /\ lab.live.status = "pending"
    /\ lab' = [lab EXCEPT !.live =
                 IF lab.entity.status = "raised" THEN Aborted
                 ELSE Labelled(live_label(lab.m, lab.gs, lab.entity.val))]
    /\ UNCHANGED <<notLab, race, feedVars, mainVars, storeVars, resolveVars, ingestVars>>

NextLabel ==
    \/ LabelInBatch
    \/ LabelInHandler

SpecLabel == InitLabel /\ [][NextLabel]_vars

-----------------------------------------------------------------------------
(* src/telethon/main.py: main() and what it calls of TelegramBot, one await *)
(* or input() a step.  A list is kept as its length.  save_messages_to_db   *)
(* is one step here; its rows are those of SpecIngest and SpecFeed.         *)

Min(a, b) == IF a < b THEN a ELSE b
\* Seconds are added up to this many ("that many or more").
MaxSeconds == 30 * MaxFloods

\* bot = TelegramBot(...) is constructed (main.py:422-426).
InitMain ==
    /\ rows = {} /\ hist = <<>>
    /\ msg = None /\ res = None
    /\ pc = "idle" /\ pos = 0 /\ blen = 0 /\ chat_title = <<>>
    /\ saved_count = 0 /\ skipped_count = 0 /\ summaries = 0
    /\ cur = NoStep
    /\ race = NoRace
    /\ batch = <<>> /\ fpc = "idle" /\ bout = <<>> /\ lout = <<>> /\ rows1 = {}
    /\ conn = NoConnect /\ pull = NoPull /\ run = NoRun
    /\ dbs = NoDb /\ sub = NoSub /\ lab = NoLab /\ again = NoAgain

\* main() enters its try and calls bot.connect() (main.py:428-430).
MainEnters ==
    /\ run.at = "none"
    /\ run' = [run EXCEPT !.at = "connect"]
    /\ conn' = [conn EXCEPT !.at = "start"]
    /\ UNCHANGED <<pull, storeVars, resolveVars, ingestVars, race, feedVars, restVars>>

\* One call of connect() and its answer (main.py:125-145).
ConnectCall(step) ==
    /\ run.at = "connect" /\ conn.at = step
    /\ \E ans \in ConnectAnswers(step), n \in WaitSeconds :
         conn' = [conn EXCEPT
                    !.at = connect_next(step, ans),
                    !.calls = Append(@, [step |-> step, ans |-> ans]),
                    !.attempts = IF step = "start" THEN Min(@ + 1, MaxFloods + 1) ELSE @,
                    !.floods = IF ans = "flood" THEN Min(@ + 1, MaxFloods) ELSE @,
                    !.wait = IF ans = "flood" THEN n ELSE 0,
                    !.asked = IF ans = "flood" THEN Min(@ + n, MaxSeconds) ELSE @]
    /\ UNCHANGED <<run, pull, storeVars, resolveVars, ingestVars, race, feedVars, restVars>>

\* await self.client.start()  (main.py:126)
ClientStart ==
    /\ conn.ret = "pending"
    /\ ConnectCall("start")

\* await self.client.is_user_authorized()  (main.py:130)
IsUserAuthorized ==
    /\ conn.ret = "pending"
    /\ ConnectCall("is_user_authorized")

\* phone = input(...)  (main.py:132)
InputPhone ==
    /\ conn.ret = "pending"
    /\ ConnectCall("input_phone")

\* await self.client.send_code_request(phone)  (main.py:133)
SendCodeRequest ==
    /\ conn.ret = "pending"
    /\ ConnectCall("send_code_request")

\* code = input(...)  (main.py:135)
InputCode ==
    /\ conn.ret = "pending"
    /\ ConnectCall("input_code")

\* await self.client.sign_in(phone, code)  (main.py:136-138)
SignIn ==
    /\ conn.ret = "pending"
    /\ ConnectCall("sign_in")

\* password = input(...)  (main.py:139)
InputPassword ==
    /\ conn.ret = "pending"
    /\ ConnectCall("input_password")

\* await self.client.sign_in(password=password)  (main.py:140)
SignInPassword ==
    /\ conn.ret = "pending"
    /\ ConnectCall("sign_in_password")

\* me = await self.client.get_me() and the log line (main.py:142-143)
GetMe ==
    /\ conn.ret = "pending"
    /\ ConnectCall("get_me")

\* except FloodWaitError: await asyncio.sleep(e.seconds), then
\* return await self.connect(): the sequence starts again (main.py:146-149).
FloodSleep ==
    /\ run.at = "connect" /\ conn.at = "sleep"
    /\ conn' = [conn EXCEPT !.at = "start", !.calls = <<>>, !.wait = 0,
                            !.slept = Min(@ + conn.wait, MaxSeconds)]
    /\ UNCHANGED <<run, pull, storeVars, resolveVars, ingestVars, race, feedVars, restVars>>

\* connect() returns True (main.py:144) or False (main.py:150-152), and
\* main() goes on or returns (main.py:430-432).
ConnectReturns ==
    /\ run.at = "connect" /\ conn.at \in {"returned", "failed"}
    /\ conn.ret = "pending"
    /\ conn' = [conn EXCEPT !.ret = IF conn.at = "returned" THEN "true" ELSE "false"]
    /\ IF conn.at = "returned"
       THEN /\ run' = [run EXCEPT !.at = "get_dialogs",
                                  !.trail = Append(@, "connected")]
            /\ pull' = [op |-> "get_dialogs", received |-> 0, failed |-> FALSE,
                        returned |-> None]
       ELSE /\ run' = [run EXCEPT !.at = "finally", !.why = "connect_failed"]
            /\ pull' = pull
    /\ UNCHANGED <<storeVars, resolveVars, ingestVars, race, feedVars, restVars>>

\* A plausible slip: the items received before the failure are returned.
pull_result_partial(received, failed) == received

\* What get_dialogs and get_chat_messages return (main.py:164-174,
\* 207-217): the list built, or [] from the except branch.
pull_result(received, failed) == IF failed THEN 0 ELSE received

\* async for ...: the iterator yields one more item, which is appended
\* (main.py:166-167, 209-210).  It yields at most `limit` items.
IterNext(op) ==
    /\ run.at = op /\ pull.returned = None
    /\ pull.received < MaxPull
    /\ pull' = [pull EXCEPT !.received = @ + 1]
    /\ UNCHANGED <<run, conn, storeVars, resolveVars, ingestVars, race, feedVars, restVars>>

\* The iterator raises; `except Exception` returns [] (main.py:172-174,
\* 215-217).
IterRaises(op) ==
    /\ run.at = op /\ pull.returned = None
    /\ pull' = [pull EXCEPT !.failed = TRUE,
                            !.returned = Some(pull_result(pull.received, TRUE))]
    /\ UNCHANGED <<run, conn, storeVars, resolveVars, ingestVars, race, feedVars, restVars>>

\* The iterator is exhausted; the list is returned (main.py:169-170,
\* 212-213).
IterEnds(op) ==
    /\ run.at = op /\ pull.returned = None
    /\ pull' = [pull EXCEPT !.returned = Some(pull_result(pull.received, FALSE))]
    /\ UNCHANGED <<run, conn, storeVars, resolveVars, ingestVars, race, feedVars, restVars>>

GetDialogsItem ==
    /\ pull.op = "get_dialogs"
    /\ IterNext("get_dialogs")

GetDialogsRaises ==
    /\ pull.op = "get_dialogs"
    /\ IterRaises("get_dialogs")

GetDialogsReturns ==
    /\ pull.op = "get_dialogs"
    /\ IterEnds("get_dialogs")

GetChatMessagesItem ==
    /\ pull.op = "get_chat_messages"
    /\ IterNext("get_chat_messages")

GetChatMessagesRaises ==
    /\ pull.op = "get_chat_messages"
    /\ IterRaises("get_chat_messages")

GetChatMessagesReturns ==
    /\ pull.op = "get_chat_messages"
    /\ IterEnds("get_chat_messages")

\* A plausible slip: disconnect is called after the try statement, not in
\* its finally, so an exception that no except clause catches skips it.
main_leaves_unscoped(why) == IF why = "cancelled" THEN "exited" ELSE "finally"

\* Where main() goes when its try block is left (main.py:428-486): by a
\* return, by KeyboardInterrupt or Exception (caught and logged), or by an
\* exception no clause catches ("cancelled": asyncio.CancelledError).  The
\* finally clause runs in each case.
main_leaves(why) == "finally"

MainLeaves(why) ==
    run' = [run EXCEPT !.at = main_leaves(why), !.why = why,
                       !.left = IF main_leaves(why) = "exited" THEN why ELSE @]

\* print_dialogs and `if not dialogs: return`; else the first dialog is
\* selected and get_chat_messages called (main.py:439-458).
AfterGetDialogs ==
    /\ run.at = "get_dialogs" /\ pull.returned # None
    /\ IF Get(pull.returned) = 0
       THEN /\ MainLeaves("no_dialogs")
            /\ pull' = pull
       ELSE /\ run' = [run EXCEPT !.at = "get_chat_messages",
                                  !.trail = Append(@, "listed")]
            /\ pull' = [op |-> "get_chat_messages", received |-> 0,
                        failed |-> FALSE, returned |-> None]
    /\ UNCHANGED <<conn, storeVars, resolveVars, ingestVars, race, feedVars, restVars>>

\* messages = ... ; print (main.py:458-459)
AfterGetChatMessages ==
    /\ run.at = "get_chat_messages" /\ pull.returned # None
    /\ run' = [run EXCEPT !.at = "save_messages_to_db",
                          !.trail = Append(@, "fetched")]
    /\ UNCHANGED <<pull, conn, storeVars, resolveVars, ingestVars, race, feedVars, restVars>>

\* await bot.save_messages_to_db(messages, chat_title) (main.py:462)
MainSaveMessages ==
    /\ run.at = "save_messages_to_db"
    /\ \E ans \in {"ok", "error"} :
         IF ans = "ok"
         THEN run' = [run EXCEPT !.at = "get_message_count",
                                 !.trail = Append(@, "saved")]
         ELSE MainLeaves("error")
    /\ UNCHANGED <<pull, conn, storeVars, resolveVars, ingestVars, race, feedVars, restVars>>

\* db.get_message_count() twice and the statistics (main.py:465-470)
MainCounts ==
    /\ run.at = "get_message_count"
    /\ run' = [run EXCEPT !.at = "input", !.trail = Append(@, "counted")]
    /\ UNCHANGED <<pull, conn, storeVars, resolveVars, ingestVars, race, feedVars, restVars>>

\* input() before the live listener (main.py:476-477)
MainInput ==
    /\ run.at = "input"
    /\ \E ans \in {"ok", "error"} :
         IF ans = "ok"
         THEN run' = [run EXCEPT !.at = "start_listening"]
         ELSE MainLeaves("error")
    /\ UNCHANGED <<pull, conn, storeVars, resolveVars, ingestVars, race, feedVars, restVars>>

\* bot.start_listening() up to run_until_disconnected (main.py:395-404):
\* the handler is registered and is_running set (main.py:401-402); "error"
\* is an exception of the registration, "print_error" one of the print
\* after it (main.py:404).
MainStartListening ==
    /\ run.at = "start_listening"
    /\ LET r == start_listening(sub.is_running, sub.handlers)
           registered == [sub EXCEPT !.is_running = r.is_running,
                                     !.handlers = r.handlers,
                                     !.starts = @ + 1]
       IN \E ans \in {"ok", "error", "print_error"} :
            IF ans = "ok"
            THEN /\ run' = [run EXCEPT !.at = "run_until_disconnected",
                                       !.trail = Append(@, "listening")]
                 /\ sub' = registered
            ELSE /\ MainLeaves("error")
                 /\ sub' = IF ans = "print_error" THEN registered ELSE sub
    /\ UNCHANGED <<pull, conn, storeVars, resolveVars, ingestVars, race, feedVars, notSub>>

\* A plausible slip: the handler is registered when the bot is constructed,
\* so events are dispatched as soon as the client is connected.
handler_runs_once_connected(handlers, connected, at) ==
    connected /\ at \notin {"none", "connect", "input", "exited"}

\* When the event loop runs the handler for an inbound event: a handler is
\* registered (main.py:302), the client is connected, and main() is
\* suspended in an await (input() blocks the loop, main.py:477).
handler_runs(handlers, connected, at) ==
    handlers > 0 /\ connected /\ at \notin {"none", "connect", "input", "exited"}

\* The runs of the live handler so far.
LiveRuns == Cardinality({i \in DOMAIN run.trail : run.trail[i] = "live"})

\* An inbound event is handled by the live handler (main.py:302-391) while
\* main() waits.
MainLiveEvent ==
    /\ handler_runs(sub.handlers, conn.ret = "true", run.at)
    /\ LiveRuns < MaxEvents
    /\ run' = [run EXCEPT !.trail = Append(@, "live")]
    /\ UNCHANGED <<pull, conn, storeVars, resolveVars, ingestVars, race, feedVars, restVars>>

\* await self.client.run_until_disconnected() ends (main.py:407): the live
\* loop returns, or raises.
RunUntilDisconnected ==
    /\ run.at = "run_until_disconnected"
    /\ \E why \in {"live_ended", "error"} : MainLeaves(why)
    /\ UNCHANGED <<pull, conn, storeVars, resolveVars, ingestVars, race, feedVars, restVars>>

\* The operator interrupts the program inside the try block: main() sees
\* KeyboardInterrupt (main.py:481-482) or, when asyncio.run cancels the
\* task, CancelledError, which no except clause of main() catches.
Interrupt ==
    /\ run.at \notin {"none", "finally", "exited"}
    /\ \E why \in {"interrupt", "cancelled"} : MainLeaves(why)
    /\ UNCHANGED <<pull, conn, storeVars, resolveVars, ingestVars, race, feedVars, restVars>>

\* TelegramBot.disconnect (main.py:409-415): an exception of
\* client.disconnect() is caught and logged.
disconnect(ans) == [logged |-> ans = "error", raised |-> FALSE]

\* finally: await bot.disconnect() (main.py:485-486); then main() is left:
\* it returns, or the exception no clause caught goes on.
Disconnect ==
    /\ run.at = "finally"
    /\ \E ans \in {"ok", "error"} :
         run' = [run EXCEPT !.at = "exited",
                            !.disconnects = @ + 1,
                            !.disconnect_logged = disconnect(ans).logged,
                            !.left = IF disconnect(ans).raised THEN "disconnect_error"
                                     ELSE IF run.why = "cancelled" THEN "cancelled"
                                     ELSE "returned"]
    /\ UNCHANGED <<pull, conn, storeVars, resolveVars, ingestVars, race, feedVars, restVars>>

NextMain ==
    \/ MainEnters
    \/ ClientStart
    \/ IsUserAuthorized
    \/ InputPhone
    \/ SendCodeRequest
    \/ InputCode
    \/ SignIn
    \/ InputPassword
    \/ SignInPassword
    \/ GetMe
    \/ FloodSleep
    \/ ConnectReturns
    \/ GetDialogsItem
    \/ GetDialogsRaises
    \/ GetDialogsReturns
    \/ AfterGetDialogs
    \/ GetChatMessagesItem
    \/ GetChatMessagesRaises
    \/ GetChatMessagesReturns
    \/ AfterGetChatMessages
    \/ MainSaveMessages
    \/ MainCounts
    \/ MainInput
    \/ MainStartListening
    \/ MainLiveEvent
    \/ RunUntilDisconnected
    \/ Interrupt
    \/ Disconnect

SpecMain == InitMain /\ [][NextMain]_vars

\* The scheduler keeps running a coroutine that can take a step.
SpecMainFair == SpecMain /\ WF_vars(NextMain)

-----------------------------------------------------------------------------
(* Claims about the store, checked under SpecStore.                         *)

PairPresent(t, message_id, chat_id) ==
    \E r \in t : r.id = message_id /\ r.chat_id = chat_id

Last == hist[Len(hist)]
LastIsSave == hist # <<>> /\ Last.op = "save"

\* C1: save(message_id, chat_id, ...) inserts a row and returns true whenever
\* no row with that (message_id, chat_id) pair is present (also when a row
\* with the same message_id and another chat_id exists), and returns false
\* exactly when the pair is already present.  Stated for saves the storage
\* layer does not fail.
C1_SaveInsertsIffPairAbsent ==
    (LastIsSave /\ ~Last.fault) =>
        LET present == PairPresent(Last.before, Last.message_id, Get(Last.chat_id))
        IN /\ Last.inserted <=> ~present
           /\ ~present => PairPresent(rows, Last.message_id, Get(Last.chat_id))

\* Two saves in a row with the same (id, chat), neither failing in storage.
SavedTwice ==
    /\ Len(hist) = 2
    /\ hist[1].op = "save" /\ hist[2].op = "save"
    /\ hist[1].message_id = hist[2].message_id
    /\ hist[1].chat_id = hist[2].chat_id
    /\ ~hist[1].fault /\ ~hist[2].fault

\* C2: save called twice in a row with identical (id, chat) returns true and
\* then false, and count(chat) is exactly 1 higher after the two calls than
\* before them.  Stated for a pair that is absent before the first call (the
\* case the claim's scenario D is an instance of).
C2_SaveTwiceTrueThenFalse ==
    (SavedTwice /\ ~PairPresent(hist[1].before, hist[1].message_id,
                                Get(hist[1].chat_id))) =>
        /\ hist[1].inserted
        /\ ~hist[2].inserted
        /\ get_message_count(rows, hist[1].chat_id, FALSE)
             = get_message_count(hist[1].before, hist[1].chat_id, FALSE) + 1

\* C3: the store holds at most one row per (message_id, chat_id) pair, and a
\* save of a pair that is already present reports false and leaves every
\* stored row unchanged.
C3_PairUniqueAndDuplicateNoOp ==
    /\ \A r1, r2 \in rows :
           (r1.id = r2.id /\ r1.chat_id = r2.chat_id) => r1 = r2
    /\ (LastIsSave /\ PairPresent(Last.before, Last.message_id, Get(Last.chat_id)))
           => (~Last.inserted /\ rows = Last.before)

\* C3 witness: a save of a present pair, not failing in storage, on a store
\* that also holds a row of another message.
C3_Witness ==
    /\ LastIsSave /\ ~Last.fault
    /\ PairPresent(Last.before, Last.message_id, Get(Last.chat_id))
    /\ Cardinality(rows) = 2

LastIsCount == hist # <<>> /\ Last.op = "count"

\* C15: count() with no argument returns the total number of stored rows,
\* and count(chat_id) returns the number of stored rows whose chat_id equals
\* the argument, for every integer chat_id (0 included) and every reachable
\* store.  Stated for counts the storage layer does not fail.
C15_CountTotalOrPerChat ==
    (LastIsCount /\ ~Last.fault) =>
        Last.count = IF Last.chat_id = None
                     THEN Cardinality(rows)
                     ELSE Cardinality({r \in rows : r.chat_id = Get(Last.chat_id)})

\* C22: a stored row is created once and then never updated and never
\* deleted: over every save, count and init_database, every row present
\* before the operation is present after it with the same column values.
C22_RowsOnlyGrow ==
    [][\A r \in rows : r \in rows']_vars

\* C22 witness: a row was stored, and a later save of the same message id
\* with another chat id, not failing in storage, was made on top of it.
C22_Witness ==
    /\ Len(hist) = 2
    /\ hist[1].op = "save" /\ hist[1].inserted
    /\ hist[2].op = "save" /\ ~hist[2].fault
    /\ hist[2].message_id = hist[1].message_id
    /\ hist[2].chat_id # hist[1].chat_id
    /\ rows # {}

-----------------------------------------------------------------------------
(* Claims about the database file, checked under SpecDb.                    *)

\* C23: every Database operation (init_database, save_message,
\* get_message_count) closes the connection it opened before it returns, on
\* its success path and on its failure path alike: no connection is open
\* between operations.
C23_ConnectionClosedOnReturn ==
    dbs.open = 0

\* C25: init_database is idempotent and safe on every process start:
\* called any number of times, on a new file or on a populated one, it does
\* not raise unless the storage layer fails, leaves the table and both
\* indexes existing, and leaves every stored row as it was.
C25_InitIdempotent ==
    /\ [](dbs.last.op = "init" /\ dbs.last.fault = "none" =>
             /\ ~dbs.last.raised
             /\ dbs.made
             /\ dbs.schema = SchemaObjects)
    /\ [](dbs.made => dbs.schema = SchemaObjects)
    /\ [][(NewDatabase \/ InitDatabaseAgain) => rows' = rows]_vars
    /\ [][dbs.schema \subseteq dbs'.schema]_vars

\* C25 witness: init_database succeeded on a store that holds rows.
C25_Witness ==
    /\ dbs.last.op = "init" /\ dbs.last.fault = "none"
    /\ Cardinality(rows) = MaxMsgId
    /\ dbs.schema = SchemaObjects

\* C29: the store never holds two rows with the same message id, whatever
\* their chat ids; so the rows are at most as many as the message ids that
\* were ever saved, and the row kept for a message id is the row of the
\* first save of that id that returned true.
C29_OneRowPerMessageId ==
    /\ \A r1, r2 \in rows : r1.id = r2.id => r1 = r2
    /\ Cardinality(rows) <= Cardinality(dbs.tried)
    /\ \A r \in rows :
          \E i \in 1 .. Len(dbs.kept) :
              /\ dbs.kept[i] = r
              /\ \A j \in 1 .. i - 1 : dbs.kept[j].id # r.id
    /\ \A i \in 1 .. Len(dbs.kept) : \E r \in rows : r.id = dbs.kept[i].id

\* C29 witness: a save that did not fail in storage returned false because
\* the message id is stored with another chat id.
C29_Witness ==
    /\ dbs.last.op = "save" /\ dbs.last.fault = "none" /\ ~dbs.last.ret
    /\ \E r \in rows : /\ r.id = Get(dbs.last.call).message_id
                       /\ r.chat_id # Get(dbs.last.call).chat_id
    /\ Cardinality(rows) = MaxMsgId

-----------------------------------------------------------------------------
(* Claims about flows saving one pair, checked under SpecRace.              *)

AllFlowsReturned == race.pair # None /\ \A f \in Flows : race.ret[f] # "pending"

\* C13: saves of the same (message_id, chat_id) pair from two logical flows
\* are safe without locking: in every order exactly one of the saves returns
\* true, the others return false, none raises, and exactly one row for the
\* pair results.  Stated for a pair that is absent when the flows meet and
\* for saves the storage layer does not fail.
C13_ExactlyOneFlowInserts ==
    (/\ AllFlowsReturned
     /\ \A f \in Flows : race.ret[f] # "failed"
     /\ ~PairPresent(race.before, Get(race.pair).id, Get(race.pair).chat_id)) =>
        /\ Cardinality({f \in Flows : race.ret[f] = "true"}) = 1
        /\ Cardinality({r \in rows : /\ r.id = Get(race.pair).id
                                      /\ r.chat_id = Get(race.pair).chat_id}) = 1

-----------------------------------------------------------------------------
(* Claims about a batch replayed or fed to both paths, under SpecFeed.      *)

ReplayDone == fpc = "second" /\ pc = "done"
BothDone == fpc = "both" /\ pc = "done" /\ Len(lout) = Len(batch)
\* The outcomes of the first pass over the batch.
FirstPass == SubSeq(bout, 1, blen)
NoFailureIn(outs) == \A i \in 1 .. Len(outs) : ~outs[i].fault

RECURSIVE ApplySaves(_, _)
ApplySaves(t, outs) ==
    IF outs = <<>> THEN t
    ELSE LET o == Head(outs)
             c == Get(o.call)
         IN ApplySaves(IF o.call = None THEN t
                       ELSE save_message(t, c.message_id, c.chat_id, c.sender,
                                         c.text, c.date, o.fault).rows,
                       Tail(outs))

\* C12: when save_messages_to_db and the handler observe the same messages,
\* the final rows, all columns included, are the same for every order and
\* interleaving of the two paths' saves: they are the rows that the saves of
\* save_messages_to_db followed by the saves of the handler leave.
C12_OrderIndependent ==
    BothDone => rows = ApplySaves(ApplySaves({}, bout), lout)

\* C14: a storage failure during save does not raise: save reports false,
\* the rows are unchanged, and the caller continues: save_messages_to_db
\* is never left by an exception and goes through every message of the
\* batch, and no run of the handler ends in an exception of save.
C14_StorageFailureContained ==
    /\ \A i \in 1 .. Len(bout) :
           bout[i].fault => (~bout[i].inserted /\ bout[i].unchanged /\ ~bout[i].raised)
    /\ \A i \in 1 .. Len(lout) :
           lout[i].fault => (~lout[i].inserted /\ lout[i].unchanged /\ ~lout[i].raised)
    /\ pc # "raised"
    /\ (pc = "done" /\ fpc \in {"first", "both"}) => Len(bout) = blen
    /\ (pc = "done" /\ fpc = "second") => Len(bout) = 2 * blen

\* C14 witness: the save of the first message failed in storage on both
\* paths; the loop then stored the second message, and the handler then
\* issued the save of the second message.
C14_Witness ==
    /\ BothDone /\ blen = 2
    /\ bout[1].fault /\ bout[2].inserted
    /\ lout[1].fault /\ lout[2].call # None
    /\ Cardinality(rows) = 1

\* A pass of save_messages_to_db over the batch is over, the handler not
\* being fed: the outcomes of that pass are bout[PassStart + 1] onwards.
BatchPassDone == pc = "done" /\ fpc \in {"first", "second"}
PassStart == IF fpc = "second" THEN blen ELSE 0
\* The rows the i-th save call of bout met.
RowsBefore(i) == ApplySaves({}, SubSeq(bout, 1, i - 1))
\* The messages of the pass whose save call met a row of their pair.
PairWasPresent ==
    {i \in PassStart + 1 .. PassStart + blen :
        /\ bout[i].call # None
        /\ PairPresent(RowsBefore(i), Get(bout[i].call).message_id,
                       Get(Get(bout[i].call).chat_id))}

\* C24: at the end of a batch saved_count is the number of rows the batch
\* added and skipped_count the number of text messages whose
\* (message_id, chat_id) pair was already present when saved; the summary
\* is logged once per batch; and a batch of messages with distinct ids and
\* resolvable chats, none stored yet, leaves as many rows as it has
\* messages with non-empty text.
C24_BatchCounts ==
    /\ BatchPassDone =>
          /\ saved_count
               = Cardinality(rows) - Cardinality(IF fpc = "second" THEN rows1 ELSE {})
          /\ skipped_count = Cardinality(PairWasPresent)
          /\ summaries = IF fpc = "second" THEN 2 ELSE 1
    /\ (BatchPassDone /\ fpc = "first") =>
          Cardinality(rows)
             = Cardinality({i \in 1 .. blen :
                               batch[i].text # None /\ batch[i].text # Some(<<>>)})

-----------------------------------------------------------------------------
(* Claims about the live subscription, checked under SpecLive.              *)

\* C21: a failure while one live event is handled (chat lookup, sender
\* lookup, print, save) is caught inside the handler and never leaves it:
\* the run ends logged or completed, a failed save is a completed run
\* without a row, the handler stays registered, and later events are
\* handled.
C21_HandlerFailureContained ==
    /\ \A i \in 1 .. Len(sub.outs) :
          LET o == sub.outs[i]
          IN /\ o.ends \in {"logged", "completed"}
             /\ o.failure \in {"get_chat", "print"} => (o.ends = "logged" /\ o.call = None)
             /\ o.failure \in {"none", "get_sender", "save"} => o.ends = "completed"
             /\ o.failure = "save" => (o.call # None /\ ~o.inserted)
    /\ sub.starts > 0 => (sub.handlers = 1 /\ sub.is_running)

\* C21 witness: the chat lookup failed for the first event, and the second
\* event was handled and its message stored.
C21_Witness ==
    /\ Len(sub.outs) = 2
    /\ sub.outs[1].failure = "get_chat" /\ sub.outs[1].ends = "logged"
    /\ sub.outs[2].failure = "none" /\ sub.outs[2].inserted
    /\ sub.at = "waiting"

\* C32: over the lifetime of one bot the handler is registered at most
\* once, so an event is handled by at most one run of the handler:
\* start_listening registers the handler and sets is_running only when
\* is_running is false; is_running is never reset, neither when the live
\* loop ends nor by disconnect; and every later call of start_listening
\* returns without registering a handler and without waiting.
C32_HandlerRegisteredOnce ==
    /\ [](sub.handlers <= 1)
    /\ [](sub.is_running <=> sub.handlers = 1)
    /\ [][sub.is_running => (sub'.is_running /\ sub'.handlers = sub.handlers)]_vars
    /\ [][(~sub.is_running /\ sub'.starts > sub.starts)
             => (sub'.is_running /\ sub'.handlers = 1 /\ sub'.at = "waiting")]_vars
    /\ [][(sub.is_running /\ sub'.starts > sub.starts)
             => (sub'.handlers = sub.handlers /\ sub'.at = sub.at /\ sub'.outs = sub.outs)]_vars

\* C32 witness: the live loop handled an event and ended, the bot was
\* disconnected, and start_listening was called again: one handler.
C32_Witness ==
    /\ sub.starts >= 2 /\ sub.at = "disconnected"
    /\ Len(sub.outs) > 0
    /\ sub.is_running /\ sub.handlers = 1

-----------------------------------------------------------------------------
(* Claims about the labels of the two paths, checked under SpecLabel.       *)

BothLabelled == lab.batch.status = "saved" /\ lab.live.status = "saved"

-----------------------------------------------------------------------------
(* Claims about chat-id resolution, checked under SpecResolve.              *)

Resolved == res # None /\ msg # None

\* C6: chat-id resolution follows a fixed priority: the direct chat-id field
\* if present and non-zero; else the peer reference, giving the id of its
\* kind; else the legacy peer reference likewise; else None.  A message with
\* only the channel peer reference 555 resolves to 555, not private.
C6_ChatIdPriority ==
    Resolved =>
        LET m == Get(msg)
            r == Get(res)
        IN /\ TruthyInt(m.chat_id) => r.chat_id = m.chat_id
           /\ (~TruthyInt(m.chat_id) /\ m.peer_id # None)
                  => r.chat_id = Some(Get(m.peer_id).id)
           /\ (~TruthyInt(m.chat_id) /\ m.peer_id = None /\ m.to_id # None)
                  => r.chat_id = Some(Get(m.to_id).id)
           /\ (~TruthyInt(m.chat_id) /\ m.peer_id = None /\ m.to_id = None)
                  => r.chat_id = None
           /\ (m = [chat_id |-> None,
                    peer_id |-> Some([kind |-> "PeerChannel", id |-> 555]),
                    to_id |-> None])
                  => (r.chat_id = Some(555) /\ ~r.is_private)

\* C6 witness: the direct field is 0 and there is no peer reference, so the
\* legacy peer reference decides.
C6_Witness ==
    /\ Resolved
    /\ Get(msg) = [chat_id |-> Some(0), peer_id |-> None,
                   to_id |-> Some([kind |-> "PeerChat", id |-> 7])]
    /\ Get(res).chat_id = Some(7)

\* The peer reference get_chat_id_from_message takes the id from when the
\* direct field gives none: peer_id, or to_id when peer_id does not resolve.
ClassifiedPeer(m) ==
    IF TruthyObj(m.peer_id) /\ PeerDispatch(Get(m.peer_id)) # None THEN m.peer_id
    ELSE IF TruthyObj(m.to_id) /\ PeerDispatch(Get(m.to_id)) # None THEN m.to_id
    ELSE None

\* C7: is_private is true iff the peer reference the chat id is resolved
\* from (peer_id, or to_id when peer_id does not resolve) is of user kind.
C7_PrivateIffUserPeer ==
    Resolved =>
        LET ref == ClassifiedPeer(Get(msg))
        IN Get(res).is_private <=> (ref # None /\ Get(ref).kind = "PeerUser")

\* C7 witness: peer_id and to_id are of different kinds, one of them user.
C7_Witness ==
    /\ Resolved
    /\ Get(msg).peer_id = Some([kind |-> "PeerChat", id |-> 7])
    /\ Get(msg).to_id = Some([kind |-> "PeerUser", id |-> 7])
    /\ ~Get(res).is_private

-----------------------------------------------------------------------------
(* Claims about the two ingestion paths, checked under SpecIngest.          *)

Processed == cur.path \in {"batch", "live"}
SaveIssued == cur.call # None
SavedLabel == Get(cur.call).sender

\* C4: a message without text is never persisted: neither
\* save_messages_to_db nor the handler calls save for it, and no stored
\* row has an empty or missing text.
C4_NoTextNeverSaved ==
    /\ (Processed /\ (cur.m.text = None \/ cur.m.text = Some(<<>>))) => ~SaveIssued
    /\ \A r \in rows : r.text # None /\ r.text # Some(<<>>)

\* C4 witness: the handler ran to its end on an event whose message has an
\* empty text and a resolvable chat.
C4_Witness ==
    /\ cur.path = "live" /\ cur.printed # None
    /\ cur.m.text = Some(<<>>)
    /\ cur.m.peer_id = Some(UserPeer)
    /\ ~SaveIssued

\* C5: a message whose chat id cannot be resolved is never stored: no save
\* is issued with a null or zero chat id on either path, and in
\* save_messages_to_db such a message is skipped with a warning and counted
\* neither as saved nor as duplicate.
C5_UnresolvedNeverSaved ==
    LET chat_id == get_chat_id_from_message(Some(cur.m))
        unresolved == chat_id = None \/ chat_id = Some(0)
    IN /\ SaveIssued => (Get(cur.call).chat_id # None /\ Get(cur.call).chat_id # Some(0))
       /\ \A r \in rows : r.chat_id # 0
       /\ (Processed /\ unresolved) => ~SaveIssued
       /\ (cur.path = "batch" /\ cur.m.text = Some(Hi) /\ unresolved)
              => /\ "warn_no_chat_id" \in cur.logged
                 /\ saved_count = cur.saved_before
                 /\ skipped_count = cur.skipped_before

\* C5 witness: a text message of the batch whose chat id resolves to 0.
C5_Witness ==
    /\ cur.path = "batch"
    /\ cur.m.text = Some(Hi)
    /\ cur.m.chat_id = Some(0)
    /\ "warn_no_chat_id" \in cur.logged

\* C8: in save_messages_to_db the sender of a private-chat message is the
\* sender attached to the message; otherwise the sender fetched by
\* get_sender(); otherwise, whenever that produced no sender (it failed or
\* returned nothing), the entity fetched with chat_id.  No fetch failure
\* aborts the message: it is saved with the label of what was resolved.
C8_SenderFallbackChain ==
    (cur.path = "batch" /\ cur.private) =>
        /\ SaveIssued
        /\ IF cur.m.sender # None
           THEN /\ cur.sender = cur.m.sender
                /\ cur.gs = NotCalled /\ cur.ge = NotCalled
           ELSE /\ cur.gs # NotCalled
                /\ IF cur.gs.status = "ok" /\ cur.gs.val # None
                   THEN cur.sender = cur.gs.val /\ cur.ge = NotCalled
                   ELSE /\ cur.ge # NotCalled
                        /\ cur.ge.status = "ok" => cur.sender = cur.ge.val
                        /\ cur.ge.status = "raised" => cur.sender = None

\* The label the claim C9 gives a resolved sender s (an Optional User).
TrimmedName(e) ==
    strip((IF e.first_name = None THEN <<>> ELSE Get(e.first_name))
          \o <<" ">>
          \o (IF e.last_name = None THEN <<>> ELSE Get(e.last_name)))
ClaimedSenderLabel(s) ==
    IF s = None THEN Unknown
    ELSE IF TrimmedName(Get(s)) # <<>> THEN TrimmedName(Get(s))
    ELSE IF Get(s).username # None /\ Get(s).username # Some(<<>>)
         THEN Get(Get(s).username)
    ELSE Unknown

\* C9: the private-chat sender label is the trimmed "first last" of the
\* resolved sender when that is non-empty, otherwise the sender's handle
\* when it has one, otherwise the literal Unknown; it is never empty or
\* null.  No attached sender and a looked-up sender with first_name "Ann"
\* and last_name "" give "Ann".
C9_PrivateSenderLabel ==
    (Processed /\ cur.private /\ SaveIssued) =>
        /\ SavedLabel # None
        /\ Get(SavedLabel) # <<>>
        /\ Head(Get(SavedLabel)) # " "
        /\ Get(SavedLabel)[Len(Get(SavedLabel))] # " "
        /\ SavedLabel = Some(ClaimedSenderLabel(cur.sender))
        /\ (cur.m.sender = None /\ cur.sender = Some(AnnOnly)) => SavedLabel = Some(Ann)

\* C9 witness: no attached sender, get_sender() fails, the entity lookup
\* returns first_name "Ann", last_name "", and the row is stored as "Ann".
C9_Witness ==
    /\ cur.path = "batch" /\ cur.private
    /\ cur.m.sender = None
    /\ cur.gs = Raised
    /\ cur.ge = Returned(Some(AnnOnly))
    /\ \E r \in rows : r.id = cur.m.id /\ r.sender = Some(Ann)

\* The title of the chat answer a, when it is available: the lookup did not
\* fail, the chat has a title and the title is not empty.
AvailableTitle(a) ==
    IF a.status = "ok" /\ a.val # None /\ HasTitle(Get(a.val))
       /\ Get(a.val).title # None /\ Get(a.val).title # Some(<<>>)
    THEN Get(a.val).title
    ELSE None

\* C10: for a group or channel message the stored sender label is the
\* chat's title; if that is unavailable (the lookup fails, the chat has no
\* title or an empty one) the caller-supplied chat title; if that is
\* unavailable too (always so in the handler, which has none) the literal
\* "Unknown chat".  The label is never null or empty.
C10_ChatLabelFallback ==
    (Processed /\ ~cur.private /\ SaveIssued) =>
        LET a == IF cur.path = "batch" THEN cur.ge ELSE cur.chat
            fallback == IF cur.path = "batch" /\ chat_title # <<>>
                        THEN chat_title ELSE UnknownChat
        IN /\ SavedLabel # None /\ SavedLabel # Some(<<>>)
           /\ SavedLabel = IF AvailableTitle(a) # None THEN AvailableTitle(a)
                           ELSE Some(fallback)

-----------------------------------------------------------------------------
(* Claims about connect(), main() and the two pulls, checked under SpecMain *)
(* (C17 under SpecMainFair).                                                *)

\* The last call of the running attempt of connect(), when there is one.
Called == conn.calls # <<>>
LastCall == conn.calls[Len(conn.calls)]

\* C16: a wait signal at any point of connect() (start, authorization
\* query, code request, sign-in, second factor, get_me) does not make
\* connect fail: connect sleeps the seconds asked for and then runs its
\* whole sequence again from client.start().  With one wait-30-seconds
\* signal followed by success, at least 30 seconds were slept and connect
\* ends with success on its second attempt.
C16_FloodWaitSleepsAndRetries ==
    /\ (Called /\ LastCall.ans = "flood")
          => (conn.at = "sleep" /\ conn.ret = "pending" /\ conn.wait \in WaitSeconds)
    /\ conn.at = "failed" => (Called /\ LastCall.ans = "error")
    /\ conn.at \notin {"sleep", "none"} => conn.slept = conn.asked
    /\ conn.floods < MaxFloods =>
          conn.attempts = IF conn.at \in {"none", "start", "sleep"} THEN conn.floods
                          ELSE conn.floods + 1
    /\ (conn.at = "start" /\ conn.floods > 0) => conn.calls = <<>>
    /\ (conn.ret = "true" /\ conn.floods = 1 /\ conn.asked = 30)
          => (conn.slept >= 30 /\ conn.attempts = 2)

\* C16 witness: connect() returned True after exactly one wait signal, of
\* 30 seconds, having gone through the second factor.
C16_Witness ==
    /\ conn.ret = "true" /\ conn.floods = 1 /\ conn.asked = 30 /\ conn.slept = 30
    /\ \E i \in 1 .. Len(conn.calls) : conn.calls[i].step = "sign_in_password"

\* C17: the rate-limit retries of connect() are bounded: connect(), once
\* called, is over after finitely many attempts, also when every attempt
\* is answered with a wait signal.
C17_ConnectTerminates ==
    (run.at = "connect") ~> (run.at # "connect")

Rank(step) ==
    IF step = "start" THEN 1
    ELSE IF step = "is_user_authorized" THEN 2
    ELSE IF step = "input_phone" THEN 3
    ELSE IF step = "send_code_request" THEN 4
    ELSE IF step = "input_code" THEN 5
    ELSE IF step = "sign_in" THEN 6
    ELSE IF step = "input_password" THEN 7
    ELSE IF step = "sign_in_password" THEN 8
    ELSE 9

\* The session is authenticated: the platform said so, or a sign-in was
\* accepted.
Authenticated(calls) ==
    \E i \in 1 .. Len(calls) :
        \/ calls[i].step = "is_user_authorized" /\ calls[i].ans = "yes"
        \/ calls[i].step \in {"sign_in", "sign_in_password"} /\ calls[i].ans = "ok"

\* C18: an attempt of connect() walks the states in the order
\* Unauthenticated, AwaitingCode, AwaitingTwoFactor, Authenticated: its
\* calls follow the order of the code; the code is prompted for only after
\* the code request was accepted, and submitted only after the prompt; the
\* password is prompted for only right after the code submission was
\* answered with "password needed"; nothing is prompted for when the
\* session is already authorized; and connect() returns True only when
\* authenticated.
C18_SessionStatesInOrder ==
    LET c == conn.calls
        n == Len(conn.calls)
    IN /\ \A i, j \in 1 .. n : i < j => Rank(c[i].step) < Rank(c[j].step)
       /\ \A i \in 1 .. n :
             c[i].step = "input_code" =>
                 \E j \in 1 .. i - 1 : c[j].step = "send_code_request" /\ c[j].ans = "ok"
       /\ \A i \in 1 .. n :
             c[i].step = "sign_in" =>
                 (i > 1 /\ c[i - 1].step = "input_code" /\ c[i - 1].ans = "ok")
       /\ \A i \in 1 .. n :
             c[i].step = "input_password" =>
                 (i > 1 /\ c[i - 1].step = "sign_in" /\ c[i - 1].ans = "password_needed")
       /\ (\E i \in 1 .. n : c[i].step = "is_user_authorized" /\ c[i].ans = "yes")
             => \A i \in 1 .. n :
                   c[i].step \notin {"input_phone", "input_code", "input_password"}
       /\ conn.at = "returned" => Authenticated(c)
       /\ conn.ret = "true" => (conn.at = "returned" /\ Authenticated(c))

\* C18 witness: connect() returned True after the code and the password.
C18_Witness ==
    /\ conn.ret = "true"
    /\ \E i \in 1 .. Len(conn.calls) :
          conn.calls[i].step = "sign_in_password" /\ conn.calls[i].ans = "ok"
    /\ conn.floods = 0

\* C19: disconnect() is attempted on every exit path of main() after the
\* bot is constructed (failed connect, no dialogs, end of the live loop,
\* interrupt, any error), and an error of the underlying disconnect is
\* logged and never raised again.
C19_DisconnectOnEveryExit ==
    /\ run.at = "exited" =>
          /\ run.disconnects = 1
          /\ run.left \in {"returned", "cancelled"}
          /\ run.left = "cancelled" <=> run.why = "cancelled"
          /\ run.why \in {"connect_failed", "no_dialogs", "live_ended", "interrupt",
                           "cancelled", "error"}
    /\ run.at # "exited" => run.disconnects = 0

\* C19 witness: the program was interrupted in the live loop by an
\* exception main() does not catch, and the underlying disconnect failed.
C19_Witness ==
    /\ run.at = "exited" /\ run.why = "cancelled"
    /\ run.trail # <<>> /\ run.trail[Len(run.trail)] = "listening"
    /\ run.disconnect_logged

\* C20: get_dialogs and get_chat_messages never let a fetch error out: when
\* the platform fails at any point of the pull they return the empty list,
\* not a partial one; without error they return the items received, at most
\* `limit` of them.
C20_PullEmptyOnError ==
    /\ pull.returned # None =>
          /\ Get(pull.returned) = IF pull.failed THEN 0 ELSE pull.received
          /\ Get(pull.returned) <= MaxPull
    /\ (run.why = "error") => Len(run.trail) >= 3
    /\ pull.failed => pull.returned # None

\* C20 witness: get_chat_messages failed after it had received an item,
\* and returned the empty list.
C20_Witness ==
    /\ pull.op = "get_chat_messages"
    /\ pull.failed /\ pull.received > 0
    /\ pull.returned = Some(0)

\* get_dialogs has returned and gave main() nothing: the platform had no
\* dialog, or the pull failed.
NoDialogs ==
    /\ run.at = "get_dialogs" /\ pull.op = "get_dialogs"
    /\ pull.returned # None
    /\ (pull.failed \/ pull.received = 0)

\* C28: an empty dialog list is "nothing to do": when get_dialogs returns
\* an empty list (no dialogs, or a fetch error) main() fetches no messages,
\* calls no save, never starts the live listener, and ends through
\* disconnect.
C28_NoDialogsNothingToDo ==
    /\ [][NoDialogs => (/\ run'.at = "finally"
                        /\ run'.why \in {"no_dialogs", "interrupt", "cancelled"}
                        /\ run'.trail = run.trail)]_vars
    /\ [](run.why = "no_dialogs" =>
             /\ run.trail = <<"connected">>
             /\ pull.op = "get_dialogs" /\ pull.returned = Some(0)
             /\ run.at \in {"finally", "exited"}
             /\ run.at = "exited" => (run.disconnects = 1 /\ run.left = "returned"))
    /\ (run.why = "no_dialogs") ~> (run.at = "exited" /\ run.disconnects = 1)

\* C28 witness: the pull of the dialogs failed after an item had been
\* received, and main() has ended through disconnect.
C28_Witness ==
    /\ run.at = "exited" /\ run.why = "no_dialogs"
    /\ pull.failed /\ pull.received > 0
    /\ run.disconnects = 1

\* The milestones of a run of main() in the order of its statements
\* (main.py:430-478).
MainOrder == <<"connected", "listed", "fetched", "saved", "counted", "listening">>

\* C31: in a run of main() the two ingestion paths never overlap and are
\* strictly ordered: connect succeeds before any dialog listing or message
\* fetch; the live handler is registered, and runs, only after the batch
\* was saved and counted; and once the handler is registered no dialog is
\* listed, no message fetched and no batch saved or counted.
C31_PathsStrictlyOrdered ==
    /\ [](\E k \in 0 .. Len(MainOrder) :
             \A i \in DOMAIN run.trail :
                IF i <= k THEN run.trail[i] = MainOrder[i]
                ELSE run.trail[i] = "live" /\ k >= 5)
    /\ [](pull.op # "none" => conn.ret = "true")
    /\ [](run.at \in {"get_dialogs", "get_chat_messages", "save_messages_to_db",
                      "get_message_count", "input", "start_listening"}
             => (sub.handlers = 0 /\ ~sub.is_running /\ LiveRuns = 0))
    /\ [](sub.handlers > 0 =>
             /\ Len(run.trail) >= 5
             /\ run.trail[4] = "saved" /\ run.trail[5] = "counted")
    /\ [][sub.handlers > 0 =>
             /\ pull' = pull
             /\ run'.at \in {"run_until_disconnected", "finally", "exited"}
             /\ \/ run'.trail = run.trail
                \/ run'.trail = Append(run.trail, "live")
                \/ run'.trail = Append(run.trail, "listening")]_vars

\* C31 witness: a run went through connect, listing, fetch, save and
\* count, registered the handler, and the handler ran for two events.
C31_Witness ==
    /\ run.trail = MainOrder \o <<"live", "live">>
    /\ sub.handlers = 1
    /\ pull.op = "get_chat_messages" /\ pull.received > 0
    /\ conn.ret = "true"

\* A step of connect() was answered with a failure that is no wait signal.
ConnectFailure ==
    /\ conn.calls # <<>>
    /\ conn.calls[Len(conn.calls)].ans = "error"

\* C33: a failure of connect() other than a wait signal (a rejected code
\* and a rejected two-factor password among them) makes connect() return
\* False, without another attempt and without raising; main() then lists
\* no dialogs, fetches and saves nothing, does not start the live listener,
\* and ends through disconnect.
C33_ConnectFailureEndsRun ==
    /\ [](ConnectFailure <=> conn.at = "failed")
    /\ [][ConnectFailure => (/\ conn'.at = "failed"
                             /\ conn'.calls = conn.calls
                             /\ conn'.attempts = conn.attempts
                             /\ conn'.ret \in {"pending", "false"})]_vars
    /\ [](ConnectFailure =>
             /\ pull = NoPull /\ run.trail = <<>> /\ sub = NoSub
             /\ run.at \in {"connect", "finally", "exited"}
             /\ run.why \in {"none", "connect_failed", "interrupt", "cancelled"})
    /\ [](conn.ret = "false" =>
             /\ ConnectFailure
             /\ run.why = "connect_failed"
             /\ run.at \in {"finally", "exited"}
             /\ run.at = "exited" => (run.disconnects = 1 /\ run.left = "returned"))
    /\ ConnectFailure ~> (run.at = "exited" /\ run.disconnects = 1)

\* C33 witness: after a wait signal and a second attempt the two-factor
\* password was rejected; connect() returned False and main() has ended
\* through disconnect.
C33_Witness ==
    /\ conn.ret = "false" /\ conn.floods > 0
    /\ conn.calls[Len(conn.calls)] = [step |-> "sign_in_password", ans |-> "error"]
    /\ run.at = "exited" /\ run.disconnects = 1 /\ run.why = "connect_failed"

====
